---- MODULE Spec2Model ----
(***************************************************************************)
(* Urban freight carrier game: the round engine (compute.py), the two      *)
(* acceptance-probability evaluators, and the session that owns the round  *)
(* counter and the result history (app_pre_estimate.py, charts.py).        *)
(*                                                                         *)
(* Real numbers are fixed-point hundredths: the integer n stands for       *)
(* n / 100.  A cell of a pandas Series or DataFrame is a record            *)
(* [k, v]: k = "num" (v hundredths), k = "nan" (float NaN) or k = "str"    *)
(* (a non-numeric text).                                                   *)
(***************************************************************************)
EXTENDS Integers, Sequences, FiniteSets, TLC

VARIABLES
    current_round,              \* st.session_state.current_round
    rounds_results,             \* st.session_state.rounds_results (rows in order)
    hidden_rounds,              \* st.session_state.hidden_rounds
    uploaded_file,              \* the file held by the "round_upload" widget
    last_uploaded_rounds_hash,  \* st.session_state["last_uploaded_rounds_hash"]
    message,                    \* the last st.error / st.success / st.info shown
    models,                     \* the loaded coefficient tables (read-only)
    series,                     \* the Series handed to compute_round_result, if any
    outcome,                    \* what that call did: raised or returned
    event,                      \* the widget event the last script run served
    shippers_geo,               \* the caller's geography table (shipper_data.csv)
    environment,                \* the ctx dict handed to compute_round_result, if built
    calls,                      \* the calls of compute_round_result since the last Run or load
    player_email,               \* st.session_state["player_email"], "" without one
    players_sheet,              \* the data rows of the "players" worksheet
    updates                     \* per session, its leaderboard call in progress

vars == <<current_round, rounds_results, hidden_rounds, uploaded_file,
          last_uploaded_rounds_hash, message, models, series, outcome, event,
          shippers_geo, environment, calls, player_email, players_sheet, updates>>

-----------------------------------------------------------------------------
(* Cells and fixed-point arithmetic *)

Num(n) == [k |-> "num", v |-> n]
NaN == [k |-> "nan", v |-> 0]
Str == [k |-> "str", v |-> 0]
Centi(n) == n * 100

isna(x) == x.k = "nan"

\* float * float, float / float, float + float, float - float, each rounded
\* to the nearest hundredth; NaN propagates
Mul(a, b) == IF isna(a) \/ isna(b) THEN NaN ELSE Num((a.v * b.v + 50) \div 100)
Div(a, b) == IF isna(a) \/ isna(b) THEN NaN ELSE Num((a.v * 100 + b.v \div 2) \div b.v)
Add(a, b) == IF isna(a) \/ isna(b) THEN NaN ELSE Num(a.v + b.v)
Sub(a, b) == IF isna(a) \/ isna(b) THEN NaN ELSE Num(a.v - b.v)

RECURSIVE SumSeq(_)
SumSeq(s) == IF s = <<>> THEN Num(0) ELSE Add(Head(s), SumSeq(Tail(s)))

Range(s) == {s[i] : i \in DOMAIN s}

-----------------------------------------------------------------------------
(* constants.py: the lever names *)

COLUMNS ==
    << "Next_day_delivery_increase", "Same_day_delivery_increase",
       "Delivery_fee_small", "Medium_parcels_delivery_fee", "Large_parcels_delivery_fee",
       "Share_of_diesel_vans", "Share_of_electric_vans", "Microhub_delivery",
       "Offpeak_delivery", "Signature_required", "Redelivery", "Tracking", "Insurance" >>

\* the six service levers binarized by compute_round_result
ServiceLevers ==
    << "Microhub_delivery", "Offpeak_delivery", "Signature_required",
       "Redelivery", "Tracking", "Insurance" >>

ShareLevers == {"Share_of_diesel_vans", "Share_of_electric_vans"}

\* the seven levers that are neither binarized nor defaulted
NonBooleanLevers == Range(COLUMNS) \ Range(ServiceLevers)

-----------------------------------------------------------------------------
(* compute.py lines 7-12: sanitize + binarize *)

\* Series.reindex(columns): labels not in the Series become NaN
reindex(s, columns) ==
    [c \in Range(columns) |-> IF c \in DOMAIN s THEN s[c] ELSE NaN]

\* Series.astype(float) raises ValueError on a text that is no number
astype_float_raises(s) == \E c \in DOMAIN s : s[c].k = "str"

\* Python's min(a, b) and max(a, b) return a unless b compares below / above
\* it; every comparison with NaN is False
py_lt(a, b) == ~isna(a) /\ ~isna(b) /\ a.v < b.v
py_min(a, b) == IF py_lt(b, a) THEN b ELSE a
py_max(a, b) == IF py_lt(a, b) THEN b ELSE a

\* the clamp if it also turned the percentage into a fraction
clamp_share_scaled(x) ==
    LET c == py_max(Num(0), py_min(Num(Centi(100)), x))
    IN  Num(c.v \div 100)

\* the clamp without its lower bound
clamp_share_no_floor(x) == py_min(Num(Centi(100)), x)

\* max(0.0, min(100.0, x))
clamp_share(x) == py_max(Num(0), py_min(Num(Centi(100)), x))

\* Python 3 round(): to the nearest integer, ties to the even one
py_round(n) ==
    LET q == n \div 100
        r == n % 100
    IN  IF r > 50 THEN q + 1
        ELSE IF r < 50 THEN q
        ELSE IF q % 2 = 0 THEN q ELSE q + 1

\* int(round(x)) if not pd.isna(x) else 0; then 1 if > 0 else 0
binarize(x) ==
    IF isna(x) THEN Num(0)
    ELSE IF py_round(x.v) > 0 THEN Num(Centi(1)) ELSE Num(0)

\* the Series `current` after lines 7-12 (defined when astype does not raise)
sanitize(current_series, columns) ==
    LET cur == reindex(current_series, columns)
    IN  [c \in DOMAIN cur |->
            IF c \in ShareLevers THEN clamp_share(cur[c])
            ELSE IF c \in Range(ServiceLevers) THEN binarize(cur[c])
            ELSE cur[c]]

-----------------------------------------------------------------------------
(* The acceptance-probability evaluators *)

\* 100 * ln(q / (1 - q)) at q = 1.5%, 2.5%, ..., 98.5%: the utilities at which
\* 1 / (1 + exp(-x)), rounded to a whole percent, steps up by one percent
LogitSteps ==
    << -418, -366, -332, -306, -284, -267, -251, -238, -225, -214, -204, -195,
       -186, -177, -170, -162, -155, -148, -142, -136, -130, -124, -118, -113,
       -107, -102, -97, -92, -87, -82, -78, -73, -69, -64, -60, -55, -51, -47,
       -43, -38, -34, -30, -26, -22, -18, -14, -10, -6, -2, 2, 6, 10, 14, 18,
       22, 26, 30, 34, 38, 43, 47, 51, 55, 60, 64, 69, 73, 78, 82, 87, 92, 97,
       102, 107, 113, 118, 124, 130, 136, 142, 148, 155, 162, 170, 177, 186,
       195, 204, 214, 225, 238, 251, 267, 284, 306, 332, 366, 418 >>

\* math.exp(-x) raises OverflowError beyond the double range (-x > 709.78)
ExpOverflows(x) == ~isna(x) /\ -(x.v) > 70978

\* 1 / (1 + math.exp(-x)) in whole percents: NaN for NaN; exactly 1.0 once
\* exp(-x) is below the double epsilon (x >= 36.8); otherwise strictly
\* between 0 and 1 (1% .. 99%)
logistic(x) ==
    IF isna(x) THEN NaN
    ELSE IF x.v >= 3680 THEN Num(Centi(1))
    ELSE Num(1 + Cardinality({i \in DOMAIN LogitSteps : x.v >= LogitSteps[i]}))

\* float(v) keeps the cell; int(v) truncates toward zero and raises
\* ValueError on NaN; "raw" uses the cell as it is
py_int(x) == IF x.v >= 0 THEN Num(Centi(x.v \div 100)) ELSE Num(-Centi((-x.v) \div 100))

Term(key, col, conv) == [key |-> key, col |-> col, conv |-> conv]

\* the terms if the shipper evaluator also read the electric share
ShipperTerms_with_electric_share ==
    << Term("B_Next_vs_standard_increase", "Next_day_delivery_increase", "float"),
       Term("B_Same_vs_standard_increase", "Same_day_delivery_increase", "float"),
       Term("B_Delivery_fee_small", "Delivery_fee_small", "float"),
       Term("B_Delivery_fee_Medium", "Medium_parcels_delivery_fee", "float"),
       Term("B_Diesel_van", "Share_of_diesel_vans", "float"),
       Term("B_Electric_van", "Share_of_electric_vans", "float"),
       Term("B_Micro_hub_with_bike", "Microhub_delivery", "int"),
       Term("B_Off_peak", "Offpeak_delivery", "int"),
       Term("B_Insurance", "Insurance", "int"),
       Term("B_Tracking", "Tracking", "int"),
       Term("B_Redelivery", "Redelivery", "int"),
       Term("B_Signature", "Signature_required", "int") >>

\* Ship_choice_pre_estimate.py lines 27-38
ShipperTerms ==
    << Term("B_Next_vs_standard_increase", "Next_day_delivery_increase", "float"),
       Term("B_Same_vs_standard_increase", "Same_day_delivery_increase", "float"),
       Term("B_Delivery_fee_small", "Delivery_fee_small", "float"),
       Term("B_Delivery_fee_Medium", "Medium_parcels_delivery_fee", "float"),
       Term("B_Diesel_van", "Share_of_diesel_vans", "float"),
       Term("B_Micro_hub_with_bike", "Microhub_delivery", "int"),
       Term("B_Off_peak", "Offpeak_delivery", "int"),
       Term("B_Insurance", "Insurance", "int"),
       Term("B_Tracking", "Tracking", "int"),
       Term("B_Redelivery", "Redelivery", "int"),
       Term("B_Signature", "Signature_required", "int") >>

\* Recip_choice.py lines 109-122
RecipientTerms ==
    << Term("B_Next_vs_standard_increase", "Next_day_delivery_increase", "int"),
       Term("B_Same_vs_standard_increase", "Same_day_delivery_increase", "int"),
       Term("B_Delivery_fee_small", "Delivery_fee_small", "float"),
       Term("B_Delivery_fee_Medium", "Medium_parcels_delivery_fee", "float"),
       Term("B_Diesel_van", "Share_of_diesel_vans", "raw"),
       Term("B_Micro_hub_with_bike", "Microhub_delivery", "raw"),
       Term("B_Off_peak", "Offpeak_delivery", "raw"),
       Term("B_Insurance", "Insurance", "raw"),
       Term("B_Tracking", "Tracking", "raw"),
       Term("B_Redelivery", "Redelivery", "raw"),
       Term("B_Signature", "Signature_required", "raw") >>

convert(conv, x) == IF conv = "int" THEN py_int(x) ELSE x
convert_raises(conv, x) == conv = "int" /\ isna(x)

\* the result of an evaluator: exc = "" and the probability p, or the
\* exception it raised
Returned(p) == [exc |-> "", p |-> p]
Raised(exc) == [exc |-> exc, p |-> NaN]

\* the linear utility, term by term in evaluation order; `lookup` is
\* "get" for beta_values.get(k, 0.0) and "index" for beta_values[k]
RECURSIVE utility(_, _, _, _, _)
utility(beta_values, row, terms, lookup, acc) ==
    IF terms = <<>> THEN Returned(acc)
    ELSE LET t == Head(terms)
         IN  IF lookup = "index" /\ t.key \notin DOMAIN beta_values THEN Raised("KeyError")
             ELSE IF convert_raises(t.conv, row[t.col]) THEN Raised("ValueError")
             ELSE LET w == IF t.key \in DOMAIN beta_values THEN beta_values[t.key] ELSE Num(0)
                  IN  utility(beta_values, row, Tail(terms), lookup,
                              Add(acc, Mul(w, convert(t.conv, row[t.col]))))

probability_of(u) ==
    IF u.exc # "" THEN u
    ELSE IF ExpOverflows(u.p) THEN Raised("OverflowError")
    ELSE Returned(logistic(u.p))

\* Ship_choice_pre_estimate.py: every weight is beta_values.get(k, 0.0)
calculate_probability_of_selecting_by_shippers(beta_values, observation) ==
    LET asc == IF "ASC_accept" \in DOMAIN beta_values THEN beta_values["ASC_accept"] ELSE Num(0)
    IN  probability_of(utility(beta_values, observation, ShipperTerms, "get", asc))

\* Recip_choice.py: every weight is beta_values[k]
calculate_probability_of_selecting_by_recipients(beta_values, observation) ==
    IF "ASC_accept" \notin DOMAIN beta_values THEN Raised("KeyError")
    ELSE probability_of(utility(beta_values, observation, RecipientTerms, "index",
                                beta_values["ASC_accept"]))

-----------------------------------------------------------------------------
(* compute.py lines 23-197: the round simulation *)

\* a * b * c ...: the factors are taken from the largest magnitude down, so
\* that rounding to hundredths loses as little as the doubles of the code do
Abs(n) == IF n < 0 THEN -n ELSE n

RECURSIVE MulDesc(_, _)
MulDesc(acc, s) ==
    IF s = <<>> THEN acc
    ELSE LET i == CHOOSE i \in DOMAIN s : \A j \in DOMAIN s : Abs(s[j].v) <= Abs(s[i].v)
         IN  MulDesc(Mul(acc, s[i]), SubSeq(s, 1, i - 1) \o SubSeq(s, i + 1, Len(s)))

Prod(s) == IF \E i \in DOMAIN s : isna(s[i]) THEN NaN ELSE MulDesc(Num(Centi(1)), s)

\* the floor 1e-9 of the denominators: it lies below the resolution of
\* hundredths, where the least positive number stands for it
Eps == Num(1)

\* a / b raises ZeroDivisionError when b is 0
div_raises(b) == ~isna(b) /\ b.v = 0

\* a / b with the floor left out: not a number at b = 0
DivEps_unfloored(a, b) == IF div_raises(b) THEN NaN ELSE Div(a, b)

\* a / max(1e-9, b): the denominator is floored at 1e-9
DivEps(a, b) == Div(a, py_max(Eps, b))

\* largest r with r * r <= n, by bisection on lo <= r < hi
RECURSIVE isqrt(_, _, _)
isqrt(n, lo, hi) ==
    IF hi - lo <= 1 THEN lo
    ELSE LET mid == (lo + hi) \div 2
         IN  IF mid * mid <= n THEN isqrt(n, mid, hi) ELSE isqrt(n, lo, mid)

\* math.sqrt(x): NaN for NaN, ValueError below zero
sqrt(x) == IF isna(x) THEN NaN ELSE Num(isqrt(x.v * 100, 0, 46341))
sqrt_raises(x) == ~isna(x) /\ x.v < 0

\* math.ceil(a / max(1e-9, b)), a whole number; math.ceil raises ValueError
\* on NaN
\* the quotient rounded down instead of up
ceil_div_truncated(a, b) == Num(Centi(a.v \div py_max(Eps, b).v))
ceil_div(a, b) == Num(Centi(-((-a.v) \div py_max(Eps, b).v)))
ceil_raises(a) == isna(a)

\* periods = {60:'two_months', 365:'one_year', 1825:'five_year'}
periods == << [days |-> 60, lbl |-> "two_months"],
              [days |-> 365, lbl |-> "one_year"],
              [days |-> 1825, lbl |-> "five_year"] >>

\* value*days with every month counted as thirty days
times_days_of_thirty_day_months(x, days) ==
    IF isna(x) THEN NaN ELSE Num(x.v * (days - (days % 30)))

times_days(x, days) == IF isna(x) THEN NaN ELSE Num(x.v * days)

\* {f"{prefix}{lbl}": value * days for days, lbl in periods.items()}
per_period(prefix, value) ==
    [c \in {prefix \o periods[i].lbl : i \in DOMAIN periods} |->
        times_days(value, periods[CHOOSE i \in DOMAIN periods : prefix \o periods[i].lbl = c].days)]

\* what compute_round_result did: it returned `rows` = {row}, or it raised
\* `exc` with the text `detail` at `stage`; `handed` holds the sanitized
\* Series once it exists
\* `work` holds the demand quantities, distances, operating times and fleet
\* counts of a call that returned
CallReturned(current, row, work) ==
    [status |-> "returned", exc |-> "", detail |-> "", stage |-> "",
     handed |-> {current}, rows |-> {row}, work |-> {work}]
CallRaised(exc, detail, stage, handed) ==
    [status |-> "raised", exc |-> exc, detail |-> detail, stage |-> stage,
     handed |-> handed, rows |-> {}, work |-> {}]

\* lines 82-84 with every tier at the standard fee
total_revenue_flat(attraction_standard, attraction_next, attraction_same, average_fee_standard, Next_vs_standard_increase, Same_vs_standard_increase) ==
    Mul(Add(Add(attraction_standard, attraction_next), attraction_same),
        average_fee_standard)

\* lines 82-84: Total_revenue
total_revenue(attraction_standard, attraction_next, attraction_same, average_fee_standard, Next_vs_standard_increase, Same_vs_standard_increase) ==
    Add(Add(Mul(attraction_standard, average_fee_standard),
            Prod(<<attraction_next, average_fee_standard,
                   Add(Num(Centi(1)), Next_vs_standard_increase)>>)),
        Prod(<<attraction_same, average_fee_standard,
               Add(Num(Centi(1)), Same_vs_standard_increase)>>))

\* lines 152-156 with the bike kilometres at the diesel rate
total_emission_bike_as_diesel(ctx, VKT_diesel, VKT_electric, VKT_bike) ==
    SumSeq(<< Mul(ctx.diesel_van_external_cost, VKT_diesel),
              Mul(ctx.electric_van_external_cost, VKT_electric),
              Mul(ctx.diesel_van_external_cost, VKT_bike) >>)

\* lines 152-156: Total_emission
total_emission(ctx, VKT_diesel, VKT_electric, VKT_bike) ==
    SumSeq(<< Mul(ctx.diesel_van_external_cost, VKT_diesel),
              Mul(ctx.electric_van_external_cost, VKT_electric),
              Mul(ctx.bike_external_cost, VKT_bike) >>)

\* lines 107-108, 115-116 with the microhub lever left out: vans feed the
\* hub in every round
line_haul_in_every_round(ctx, micro_hub_delivery, demand, cap) ==
    DivEps(Prod(<<Num(Centi(2)), ctx.r2, ctx.E_vol, ctx.CDD_share,
                  Add(Num(Centi(1)), ctx.failed_delivery_rate), demand>>), cap)

\* lines 107-108, 115-116: VKT_LHT_delivery_diesel, VKT_LHT_delivery_electric
line_haul(ctx, micro_hub_delivery, demand, cap) ==
    DivEps(Prod(<<Num(Centi(2)), ctx.r2, ctx.E_vol, micro_hub_delivery, ctx.CDD_share,
                  Add(Num(Centi(1)), ctx.failed_delivery_rate), demand>>), cap)

simulate(round_id, current, shippers_probability, recipients_probability, ctx) ==
    LET one == Num(Centi(1))
        two == Num(Centi(2))
        k057 == Num(57)
        \* ---- unpack
        Next_vs_standard_increase == current["Next_day_delivery_increase"]
        Same_vs_standard_increase == current["Same_day_delivery_increase"]
        Delivery_fee_small == current["Delivery_fee_small"]
        Delivery_fee_Medium == current["Medium_parcels_delivery_fee"]
        Delivery_fee_Large == current["Large_parcels_delivery_fee"]
        share_of_diesel == Div(current["Share_of_diesel_vans"], Num(Centi(100)))
        share_of_electric == Div(current["Share_of_electric_vans"], Num(Centi(100)))
        micro_hub_delivery == current["Microhub_delivery"]
        \* ---- demand attraction (daily)
        total_carrier_demand_attraction ==
            Prod(<<ctx.number_of_deliveries, recipients_probability, shippers_probability>>)
        total_carrier_demand_attraction_standard ==
            Mul(total_carrier_demand_attraction, ctx.Share_of_standard)
        total_carrier_demand_attraction_next ==
            Mul(total_carrier_demand_attraction, ctx.Share_of_next_day)
        total_carrier_demand_attraction_same ==
            Mul(total_carrier_demand_attraction, ctx.Share_of_same_day)
        demand_diesel == Mul(total_carrier_demand_attraction, share_of_diesel)
        \* ---- delivery demand (lines 75-77; the values are not used further)
        non_CBD_fraction == Div(ctx.number_of_non_CBD_deliveries, ctx.number_of_deliveries)
        demand_electric == Mul(total_carrier_demand_attraction, share_of_electric)
        \* ---- revenue
        average_fee_standard ==
            Add(Add(Mul(Delivery_fee_small, ctx.small_parcel_frequency),
                    Mul(Delivery_fee_Medium, ctx.medium_parcel_frequency)),
                Mul(Delivery_fee_Large, ctx.large_parcel_frequency))
        Total_revenue ==
            total_revenue(total_carrier_demand_attraction_standard,
                          total_carrier_demand_attraction_next,
                          total_carrier_demand_attraction_same,
                          average_fee_standard, Next_vs_standard_increase,
                          Same_vs_standard_increase)
        \* ---- VKT collection
        density_collection == Mul(k057, sqrt(Mul(ctx.NS, ctx.total_area)))
        VKT_collection_diesel ==
            Add(DivEps(Prod(<<two, ctx.r2, ctx.E_vol, demand_diesel>>), ctx.diesel_van_cap),
                density_collection)
        VKT_collection_electric ==
            Add(DivEps(Prod(<<two, ctx.r2, ctx.E_vol, demand_electric>>), ctx.electric_van_cap),
                density_collection)
        Time_collection_diesel ==
            Add(Div(VKT_collection_diesel, ctx.diesel_van_speed),
                Prod(<<two, ctx.loading_unloading_time, demand_diesel>>))
        Time_collection_electric ==
            Add(Div(VKT_collection_electric, ctx.electric_van_speed),
                Prod(<<two, ctx.loading_unloading_time, demand_electric>>))
        \* ---- VKT delivery
        hub == Mul(micro_hub_delivery, ctx.CDD_share)
        not_hub == Sub(one, hub)
        retry == Add(one, ctx.failed_delivery_rate)
        area_LMD == Sub(ctx.total_area, ctx.CBD_area_for_microhub)
        root_LMD_diesel ==
            Prod(<<not_hub, retry, total_carrier_demand_attraction, share_of_diesel, area_LMD>>)
        root_LMD_electric ==
            Prod(<<not_hub, retry, total_carrier_demand_attraction, share_of_electric, area_LMD>>)
        root_LMD_bike ==
            Prod(<<micro_hub_delivery, ctx.CDD_share, retry, total_carrier_demand_attraction,
                   ctx.CBD_area_for_microhub>>)
        VKT_LMD_delivery_diesel ==
            Add(DivEps(Prod(<<two, ctx.r2, ctx.E_vol, not_hub, retry, demand_diesel>>),
                       ctx.diesel_van_cap),
                Mul(k057, sqrt(root_LMD_diesel)))
        VKT_LHT_delivery_diesel ==
            line_haul(ctx, micro_hub_delivery, demand_diesel, ctx.diesel_van_cap)
        VKT_LMD_delivery_electric ==
            Add(DivEps(Prod(<<two, ctx.r2, ctx.E_vol, not_hub, retry, demand_electric>>),
                       ctx.electric_van_cap),
                Mul(k057, sqrt(root_LMD_electric)))
        VKT_LHT_delivery_electric ==
            line_haul(ctx, micro_hub_delivery, demand_electric, ctx.electric_van_cap)
        VKT_LMD_delivery_bike ==
            Add(DivEps(Prod(<<two, ctx.r2, ctx.E_vol, micro_hub_delivery, ctx.CDD_share, retry,
                              total_carrier_demand_attraction>>), ctx.cargo_bike_cap),
                Mul(k057, sqrt(root_LMD_bike)))
        Time_delivery_LMD_diesel ==
            Add(Div(VKT_LMD_delivery_diesel, ctx.diesel_van_speed),
                Prod(<<two, ctx.loading_unloading_time, not_hub, retry, demand_diesel>>))
        Time_delivery_LMD_electric ==
            Add(Div(VKT_LMD_delivery_electric, ctx.electric_van_speed),
                Prod(<<two, ctx.loading_unloading_time, not_hub, retry, demand_electric>>))
        Time_delivery_LHT_diesel ==
            Add(Div(VKT_LHT_delivery_diesel, ctx.diesel_van_speed),
                Prod(<<two, ctx.loading_unloading_time, micro_hub_delivery, ctx.CDD_share,
                       retry, demand_diesel>>))
        Time_delivery_LHT_electric ==
            Add(Div(VKT_LHT_delivery_electric, ctx.electric_van_speed),
                Prod(<<two, ctx.loading_unloading_time, micro_hub_delivery, ctx.CDD_share,
                       retry, demand_electric>>))
        Time_delivery_LMD_bike ==
            Add(Div(VKT_LMD_delivery_bike, ctx.cargo_bike_speed),
                Prod(<<two, ctx.loading_unloading_time, micro_hub_delivery, ctx.CDD_share,
                       retry, total_carrier_demand_attraction>>))
        Time_delivery_diesel == Add(Time_delivery_LMD_diesel, Time_delivery_LHT_diesel)
        Time_delivery_electric == Add(Time_delivery_LMD_electric, Time_delivery_LHT_electric)
        \* ---- fleets
        hours == ctx.Vehicels_daily_operating_hours
        Fleet_collection_diesel == ceil_div(Time_collection_diesel, hours)
        Fleet_collection_electric == ceil_div(Time_collection_electric, hours)
        Fleet_delivery_diesel == ceil_div(Time_delivery_diesel, hours)
        Fleet_delivery_electric == ceil_div(Time_delivery_electric, hours)
        Fleet_delivery_bike == ceil_div(Time_delivery_LMD_bike, hours)
        \* ---- totals
        Total_costs ==
            SumSeq(<< Mul(ctx.diesel_van_operational_cost,
                          Add(Time_collection_diesel, Time_delivery_diesel)),
                      Mul(ctx.electric_van_operational_cost,
                          Add(Time_collection_electric, Time_delivery_electric)),
                      Mul(ctx.bike_operational_cost, Time_delivery_LMD_bike),
                      Mul(ctx.diesel_van_daily_fixed_cost,
                          Add(Fleet_collection_diesel, Fleet_delivery_diesel)),
                      Mul(ctx.electric_van_daily_fixed_cost,
                          Add(Fleet_collection_electric, Fleet_delivery_electric)),
                      Mul(ctx.bike_daily_fixed_cost, Fleet_delivery_bike) >>)
        Total_emission ==
            total_emission(ctx,
                           Add(Add(VKT_collection_diesel, VKT_LMD_delivery_diesel),
                               VKT_LHT_delivery_diesel),
                           Add(Add(VKT_collection_electric, VKT_LMD_delivery_electric),
                               VKT_LHT_delivery_electric),
                           VKT_LMD_delivery_bike)
        Total_profit == Sub(Total_revenue, Total_costs)
        Total_demand == total_carrier_demand_attraction
        per ==
            per_period("Total_costs_", Total_costs) @@
            per_period("Total_revenue_", Total_revenue) @@
            per_period("Total_emission_", Total_emission) @@
            per_period("Total_profit_", Total_profit) @@
            per_period("Total_demand_", total_carrier_demand_attraction)
        row ==
            ("Round ID" :> Num(Centi(round_id))) @@
            ("Next_vs_standard_increase" :> Next_vs_standard_increase) @@
            ("Same_vs_standard_increase" :> Same_vs_standard_increase) @@
            ("Delivery_fee_small" :> Delivery_fee_small) @@
            ("Delivery_fee_Medium" :> Delivery_fee_Medium) @@
            ("Delivery_fee_Large" :> Delivery_fee_Large) @@
            ("Diesel_van_share" :> share_of_diesel) @@
            ("Electic_van_share" :> share_of_electric) @@
            ("Micro_hub_with_bike" :> micro_hub_delivery) @@
            ("Off_peak_delivery" :> current["Offpeak_delivery"]) @@
            ("Signature" :> current["Signature_required"]) @@
            ("redlivery" :> current["Redelivery"]) @@
            ("Tracking" :> current["Tracking"]) @@
            ("Insurance" :> current["Insurance"]) @@
            ("Shipper_Probability" :> shippers_probability) @@
            ("Recipient_Probability" :> recipients_probability) @@
            ("Micro Hub Delivery" :> micro_hub_delivery) @@
            ("Redelivery" :> current["Redelivery"]) @@
            ("Total_costs" :> Total_costs) @@
            ("Total_revenue" :> Total_revenue) @@
            ("Total_emission" :> Total_emission) @@
            ("Total_profit" :> Total_profit) @@
            ("Total_demand" :> Total_demand) @@
            per
        work ==
            [ hours |-> hours,
              total_carrier_demand_attraction |-> total_carrier_demand_attraction,
              demand_diesel |-> demand_diesel,
              demand_electric |-> demand_electric,
              root_collection |-> Mul(ctx.NS, ctx.total_area),
              root_LMD_diesel |-> root_LMD_diesel,
              root_LMD_electric |-> root_LMD_electric,
              root_LMD_bike |-> root_LMD_bike,
              VKT_collection_diesel |-> VKT_collection_diesel,
              VKT_collection_electric |-> VKT_collection_electric,
              VKT_LMD_delivery_diesel |-> VKT_LMD_delivery_diesel,
              VKT_LHT_delivery_diesel |-> VKT_LHT_delivery_diesel,
              VKT_LMD_delivery_electric |-> VKT_LMD_delivery_electric,
              VKT_LHT_delivery_electric |-> VKT_LHT_delivery_electric,
              VKT_LMD_delivery_bike |-> VKT_LMD_delivery_bike,
              Time_delivery_LMD_diesel |-> Time_delivery_LMD_diesel,
              Time_delivery_LHT_diesel |-> Time_delivery_LHT_diesel,
              Time_delivery_LMD_electric |-> Time_delivery_LMD_electric,
              Time_delivery_LHT_electric |-> Time_delivery_LHT_electric,
              Time_collection_diesel |-> Time_collection_diesel,
              Time_collection_electric |-> Time_collection_electric,
              Time_delivery_diesel |-> Time_delivery_diesel,
              Time_delivery_electric |-> Time_delivery_electric,
              Time_delivery_bike |-> Time_delivery_LMD_bike,
              Fleet_collection_diesel |-> Fleet_collection_diesel,
              Fleet_collection_electric |-> Fleet_collection_electric,
              Fleet_delivery_diesel |-> Fleet_delivery_diesel,
              Fleet_delivery_electric |-> Fleet_delivery_electric,
              Fleet_delivery_bike |-> Fleet_delivery_bike ]
    IN  IF \E d \in {ctx.number_of_deliveries, ctx.diesel_van_speed, ctx.electric_van_speed,
                     ctx.cargo_bike_speed} : div_raises(d)
        THEN CallRaised("ZeroDivisionError", "float division by zero", "simulate", {current})
        ELSE IF \E x \in {Mul(ctx.NS, ctx.total_area), root_LMD_diesel, root_LMD_electric,
                     root_LMD_bike} : sqrt_raises(x)
        THEN CallRaised("ValueError", "math domain error", "simulate", {current})
        ELSE IF \E t \in {Time_collection_diesel, Time_collection_electric,
                          Time_delivery_diesel, Time_delivery_electric,
                          Time_delivery_LMD_bike} : ceil_raises(t)
        THEN CallRaised("ValueError", "cannot convert float NaN to integer", "simulate",
                        {current})
        ELSE CallReturned(current, row, work)

\* the caller's Series if lines 8-12 wrote into it instead of a copy
caller_series_written_in_place(current_series, columns) ==
    IF astype_float_raises(reindex(current_series, columns)) THEN current_series
    ELSE sanitize(current_series, columns)

\* the caller's Series after the call: reindex, astype and copy (line 7) each
\* make a new Series, and lines 8-12 write into that one
caller_series_after(current_series, columns) == current_series

\* compute.py lines 5-197
compute_round_result(round_id, current_series, columns, mdl, ctx) ==
    IF astype_float_raises(reindex(current_series, columns))
    THEN CallRaised("ValueError", "could not convert string to float", "sanitize", {})
    ELSE
    LET current == sanitize(current_series, columns)
        ps == calculate_probability_of_selecting_by_shippers(mdl.shippers_beta_values, current)
        pr == calculate_probability_of_selecting_by_recipients(mdl.recipients_beta_values, current)
    IN  IF ps.exc # "" THEN CallRaised(ps.exc, "", "shippers", {current})
        ELSE IF pr.exc # "" THEN CallRaised(pr.exc, "", "recipients", {current})
        ELSE simulate(round_id, current, ps.p, pr.p, ctx)

-----------------------------------------------------------------------------
(* The environment handed to compute_round_result as ctx (constants.py       *)
(* lines 86-105), in hundredths; the deliveries, the failed-delivery rate,   *)
(* the segment shares and the geometry are the inputs of a small scenario    *)

ctx ==
    [ total_area |-> Num(Centi(900)), CBD_area_for_microhub |-> Num(Centi(25)),
      number_of_CBD_deliveries |-> Num(Centi(20)),
      number_of_non_CBD_deliveries |-> Num(Centi(80)),
      number_of_deliveries |-> Num(Centi(100)),
      CDD_share |-> Num(20), failed_delivery_rate |-> Num(50),
      diesel_van_cap |-> Num(Centi(10)), electric_van_cap |-> Num(Centi(8)),
      cargo_bike_cap |-> Num(50),
      diesel_van_speed |-> Num(Centi(55)), electric_van_speed |-> Num(Centi(55)),
      cargo_bike_speed |-> Num(Centi(20)),
      loading_unloading_time |-> Num(2), Vehicels_daily_operating_hours |-> Num(Centi(8)),
      small_parcel_frequency |-> Num(53), medium_parcel_frequency |-> Num(30),
      large_parcel_frequency |-> Num(17),
      diesel_van_operational_cost |-> Num(Centi(50)),
      electric_van_operational_cost |-> Num(Centi(45)),
      bike_operational_cost |-> Num(Centi(25)),
      diesel_van_external_cost |-> Num(Centi(1)), electric_van_external_cost |-> Num(10),
      bike_external_cost |-> Num(0),
      diesel_van_daily_fixed_cost |-> Num(1096), electric_van_daily_fixed_cost |-> Num(1507),
      bike_daily_fixed_cost |-> Num(438),
      Share_of_standard |-> Num(70), Share_of_next_day |-> Num(20),
      Share_of_same_day |-> Num(10),
      r2 |-> Num(Centi(10)), NS |-> Num(Centi(4)), E_vol |-> Num(5) ]

-----------------------------------------------------------------------------
(* constants.py lines 14-106: init_environment.  A geography table is a      *)
(* record [columns, rows]: the column names and the rows in order            *)

\* Series.mean(): the mean of the cells that are not NaN, NaN if there are none
mean(cells) ==
    LET nums == SelectSeq(cells, LAMBDA x : ~isna(x))
    IN  IF nums = <<>> THEN NaN
        ELSE Num((SumSeq(nums).v + Len(nums) \div 2) \div Len(nums))

\* line 78: shippers_geo['Shipper Volume'] = number_of_deliveries * share,
\* written into the table that was passed in
with_shipper_volume(geo, number_of_deliveries) ==
    [columns |-> geo.columns \cup {"Shipper Volume"},
     rows |-> [i \in DOMAIN geo.rows |->
                 [c \in geo.columns \cup {"Shipper Volume"} |->
                     IF c = "Shipper Volume"
                     THEN Mul(number_of_deliveries, geo.rows[i]["Shipper Volume_share"])
                     ELSE geo.rows[i][c]]]]

\* what init_environment did: the ctx it returned (or the exception it
\* raised) and the caller's table as the call left it
EnvReturned(env, geo) == [exc |-> "", ctx |-> {env}, shippers_geo |-> geo]
EnvRaised(exc, geo) == [exc |-> exc, ctx |-> {}, shippers_geo |-> geo]

\* lines 77-106: the table-dependent part; the rest of ctx is the scenario above
init_environment(geo) ==
    IF "Shipper Volume_share" \notin geo.columns THEN EnvRaised("KeyError", geo)
    ELSE
    LET decorated == with_shipper_volume(geo, ctx.number_of_deliveries)
    IN  IF "Distance to Depot" \notin geo.columns THEN EnvRaised("KeyError", decorated)
        ELSE
        LET r2 == mean([i \in DOMAIN decorated.rows |-> decorated.rows[i]["Distance to Depot"]])
            NS == Num(Centi(Len(decorated.rows)))
        IN  EnvReturned([ctx EXCEPT !.r2 = r2, !.NS = NS], decorated)

\* geography tables: shipper_data.csv as loaded, a one-shipper table, a table
\* with the columns and no row, and pd.DataFrame()
Shipper(share, distance) ==
    [c \in {"Shipper Volume_share", "Distance to Depot"} |->
        IF c = "Shipper Volume_share" THEN Num(share) ELSE Num(Centi(distance))]

GeoTable(rows) == [columns |-> {"Shipper Volume_share", "Distance to Depot"}, rows |-> rows]

LoadedGeo == GeoTable(<<Shipper(25, 5), Shipper(25, 10), Shipper(25, 10), Shipper(25, 15)>>)
OneShipperGeo == GeoTable(<<Shipper(100, 10)>>)
EmptyGeo == GeoTable(<<>>)
NoColumnsGeo == [columns |-> {}, rows |-> <<>>]

GeoTables == {LoadedGeo, OneShipperGeo, EmptyGeo, NoColumnsGeo}

-----------------------------------------------------------------------------
(* pandas DataFrames (a sequence of rows, each a function column -> cell)    *)
(* and CSV text (a header and lines of text fields)                          *)

RECURSIVE SeqUnion(_)
SeqUnion(s) == IF s = <<>> THEN {} ELSE (DOMAIN Head(s)) \cup SeqUnion(Tail(s))

\* pd.concat([a, b], ignore_index=True): the columns are the union, a cell
\* a frame does not have is NaN
concat(a, b) ==
    LET cols == SeqUnion(a \o b)
    IN  [i \in DOMAIN (a \o b) |->
            [c \in cols |->
                IF c \in DOMAIN (a \o b)[i] THEN (a \o b)[i][c] ELSE NaN]]

\* the subsequence of the rows whose index satisfies keep
RECURSIVE Pick(_, _, _)
Pick(df, keep, i) ==
    IF i > Len(df) THEN <<>>
    ELSE (IF i \in keep THEN <<df[i]>> ELSE <<>>) \o Pick(df, keep, i + 1)

\* drop_duplicates with keep="first"
drop_duplicates_first(df, col) ==
    Pick(df, {i \in DOMAIN df : ~\E j \in DOMAIN df : j < i /\ df[j][col] = df[i][col]}, 1)

\* DataFrame.drop_duplicates(subset=[col], keep="last"); NaN equals NaN here
drop_duplicates(df, col) ==
    Pick(df, {i \in DOMAIN df : ~\E j \in DOMAIN df : j > i /\ df[j][col] = df[i][col]}, 1)

\* the order of sort_values: ascending, NaN last
key_le(x, y) == isna(y) \/ (~isna(x) /\ x.v <= y.v)

RECURSIVE insert_sorted(_, _, _)
insert_sorted(row, sorted, col) ==
    IF sorted = <<>> THEN <<row>>
    ELSE IF key_le(Head(sorted)[col], row[col])
         THEN <<Head(sorted)>> \o insert_sorted(row, Tail(sorted), col)
         ELSE <<row>> \o sorted

\* DataFrame.sort_values(col, kind="stable")
RECURSIVE sort_values(_, _)
sort_values(df, col) ==
    IF df = <<>> THEN <<>>
    ELSE insert_sorted(df[Len(df)], sort_values(SubSeq(df, 1, Len(df) - 1), col), col)

\* DataFrame.to_csv(index=False): a number is written as its numeral, NaN as
\* an empty field, a text as itself
to_field(x) ==
    IF x.k = "num" THEN [t |-> "numeral", v |-> x.v]
    ELSE IF x.k = "nan" THEN [t |-> "empty", v |-> 0]
    ELSE [t |-> "text", v |-> 0]

to_csv(df) ==
    [header |-> SeqUnion(df),
     lines |-> [i \in DOMAIN df |-> [c \in DOMAIN df[i] |-> to_field(df[i][c])]]]

\* pd.read_csv: a numeral parses to its number, an empty field to NaN, any
\* other text stays a text
from_field(f) ==
    IF f.t = "numeral" THEN Num(f.v)
    ELSE IF f.t = "empty" THEN NaN
    ELSE Str

read_csv(file) ==
    [i \in DOMAIN file.lines |-> [c \in DOMAIN file.lines[i] |-> from_field(file.lines[i][c])]]

\* pd.read_csv raises EmptyDataError on a file with no header line
read_csv_raises(file) == file.header = {}

\* pd.to_numeric(x, errors="coerce")
to_numeric(x) == IF x.k = "str" THEN NaN ELSE x

\* charts.py lines 244-249
required_for_charts ==
    << "Round ID",
       "Total_profit_two_months", "Total_profit_one_year", "Total_profit_five_year",
       "Total_emission_two_months", "Total_emission_one_year", "Total_emission_five_year" >>

-----------------------------------------------------------------------------
(* The session: app_pre_estimate.py render_carrier, charts.py                *)
(* render_charts_and_tables                                                  *)

MaxRound == 2       \* Run is enabled while current_round <= MaxRound
MaxHidden == 1      \* at most this many rounds are hidden at a time

\* one message shown by st.error / st.success / st.info: its kind, the
\* number it shows (a round, a row count) and the columns it lists
Msg(kind, n, cols) == [kind |-> kind, n |-> n, cols |-> cols]

\* the part of st.session_state a script run reads and writes
Session(rr, cr, hid, upl, lh, msg) ==
    [rounds_results |-> rr, current_round |-> cr, hidden_rounds |-> hid,
     uploaded_file |-> upl, last_uploaded_rounds_hash |-> lh, message |-> msg]

\* charts.py lines 254-256: the required columns of the upload, coerced
coerce_required(df) ==
    [i \in DOMAIN df |->
        [c \in DOMAIN df[i] |->
            IF c \in Range(required_for_charts) THEN to_numeric(df[i][c]) ELSE df[i][c]]]

\* the merge without drop_duplicates
merge_no_dedup(rounds, uploaded_df) ==
    sort_values(concat(rounds, uploaded_df), "Round ID")

\* charts.py lines 259-264
merge_rounds(rounds, uploaded_df) ==
    sort_values(drop_duplicates(concat(rounds, uploaded_df), "Round ID"), "Round ID")

\* Series.max() skips NaN; NaN when nothing is left
RECURSIVE max_round_id(_)
max_round_id(df) ==
    IF df = <<>> THEN NaN
    ELSE LET m == max_round_id(Tail(df))
             x == to_numeric(Head(df)["Round ID"])
         IN  IF isna(x) THEN m ELSE IF isna(m) \/ m.v < x.v THEN x ELSE m

\* the upload block if it required the Round ID column only
process_upload_id_only(S, file) ==
    IF S.last_uploaded_rounds_hash = {file}
    THEN [S EXCEPT !.message = Append(@, Msg("already_processed", 0, <<>>))]
    ELSE IF read_csv_raises(file)
    THEN [S EXCEPT !.message = Append(@, Msg("read_failed", 0, <<>>))]
    ELSE
    LET uploaded_df == read_csv(file)
        missing == SelectSeq(<<"Round ID">>, LAMBDA c : c \notin file.header)
    IN  IF missing # <<>>
        THEN [S EXCEPT !.message = Append(@, Msg("missing_columns", 0, missing))]
        ELSE
        LET merged == merge_rounds(S.rounds_results, coerce_required(uploaded_df))
            max_round == max_round_id(merged)
        IN  [S EXCEPT !.rounds_results = merged,
                      !.current_round =
                          IF isna(max_round) THEN @ ELSE py_int(max_round).v \div 100 + 1,
                      !.last_uploaded_rounds_hash = {file},
                      !.message = Append(@, Msg("imported", Len(uploaded_df), <<>>))]

\* charts.py lines 232-279: the upload block, for the file in the widget
process_upload(S, file) ==
    IF S.last_uploaded_rounds_hash = {file}
    THEN [S EXCEPT !.message = Append(@, Msg("already_processed", 0, <<>>))]
    ELSE IF read_csv_raises(file)
    THEN [S EXCEPT !.message = Append(@, Msg("read_failed", 0, <<>>))]
    ELSE
    LET uploaded_df == read_csv(file)
        missing == SelectSeq(required_for_charts, LAMBDA c : c \notin file.header)
    IN  IF missing # <<>>
        THEN [S EXCEPT !.message = Append(@, Msg("missing_columns", 0, missing))]
        ELSE
        LET merged == merge_rounds(S.rounds_results, coerce_required(uploaded_df))
            max_round == max_round_id(merged)
        IN  [S EXCEPT !.rounds_results = merged,
                      !.current_round =
                          IF isna(max_round) THEN @ ELSE py_int(max_round).v \div 100 + 1,
                      !.last_uploaded_rounds_hash = {file},
                      !.message = Append(@, Msg("imported", Len(uploaded_df), <<>>))]

\* "Round ID".astype(int) raises on NaN
astype_int_raises(df) == \E i \in DOMAIN df : isna(df[i]["Round ID"])

\* charts.py line 39: the rows that are not hidden
displayed(df, hidden) ==
    Pick(df, {i \in DOMAIN df : py_int(df[i]["Round ID"]).v \div 100 \notin hidden}, 1)

\* charts.py lines 45-51: the displayed frame, its chart columns coerced
rounds_data(df, hidden) == coerce_required(displayed(sort_values(df, "Round ID"), hidden))

\* the panel with the download button and the uploader is reached
panel_rendered(df, hidden) ==
    df # <<>> /\ ~astype_int_raises(df) /\ displayed(df, hidden) # <<>>

\* charts.py render_charts_and_tables; a widget that a run does not render
\* loses its value
render_charts_and_tables(S) ==
    IF S.rounds_results = <<>>
    THEN [S EXCEPT !.message = Append(@, Msg("run_a_round", 0, <<>>)), !.uploaded_file = {}]
    ELSE IF astype_int_raises(S.rounds_results)
    THEN [S EXCEPT !.message = Append(@, Msg("render_failed", 0, <<>>)), !.uploaded_file = {}]
    ELSE IF displayed(S.rounds_results, S.hidden_rounds) = <<>>
    THEN [S EXCEPT !.message = Append(@, Msg("all_hidden", 0, <<>>)), !.uploaded_file = {}]
    ELSE IF S.uploaded_file = {} THEN S
    ELSE process_upload(S, CHOOSE f \in S.uploaded_file : TRUE)

-----------------------------------------------------------------------------
(* Inputs: widget settings, coefficient tables, CSV files *)

\* app_pre_estimate.py lines 935-951: the Series built from the widgets
latest_inputs_series(w) ==
    [ Next_day_delivery_increase |-> Num(w.next_day_inc),
      Same_day_delivery_increase |-> Num(w.same_day_inc),
      Delivery_fee_small |-> Num(w.fee_small),
      Medium_parcels_delivery_fee |-> Num(w.fee_medium),
      Large_parcels_delivery_fee |-> Num(w.fee_large),
      Share_of_diesel_vans |-> Num(Centi(w.diesel_share)),
      Share_of_electric_vans |-> Num(Centi(100 - w.diesel_share)),
      Microhub_delivery |-> Num(Centi(IF w.microhub_enabled THEN 1 ELSE 0)),
      Offpeak_delivery |-> Num(Centi(IF w.offpeak THEN 1 ELSE 0)),
      Signature_required |-> Num(Centi(IF w.signature THEN 1 ELSE 0)),
      Redelivery |-> Num(Centi(IF w.redel THEN 1 ELSE 0)),
      Tracking |-> Num(Centi(IF w.tracking THEN 1 ELSE 0)),
      Insurance |-> Num(Centi(IF w.insurance THEN 1 ELSE 0)) ]

\* app_pre_estimate.py lines 431-442: the widget defaults
DefaultWidgets ==
    [ diesel_share |-> 60, microhub_enabled |-> FALSE,
      fee_small |-> 700, fee_medium |-> 1000, fee_large |-> 1800,
      next_day_inc |-> 20, same_day_inc |-> 50,
      offpeak |-> FALSE, redel |-> TRUE, tracking |-> TRUE,
      insurance |-> FALSE, signature |-> FALSE ]

\* the settings a player runs a round with: the defaults, or an all-electric
\* microhub round with the small fee at the top of its slider
WidgetChoices ==
    { DefaultWidgets,
      [DefaultWidgets EXCEPT !.diesel_share = 0, !.microhub_enabled = TRUE,
                             !.fee_small = 2000] }

\* coefficient tables (the JSON tables are not part of the sources)
BetaKeys ==
    { "ASC_accept", "B_Next_vs_standard_increase", "B_Same_vs_standard_increase",
      "B_Delivery_fee_small", "B_Delivery_fee_Medium", "B_Diesel_van",
      "B_Micro_hub_with_bike", "B_Off_peak", "B_Insurance", "B_Tracking",
      "B_Redelivery", "B_Signature" }

MildBetas ==
    [k \in BetaKeys |->
        IF k = "ASC_accept" THEN Num(150)
        ELSE IF k \in {"B_Delivery_fee_small", "B_Delivery_fee_Medium"} THEN Num(-5)
        ELSE IF k = "B_Diesel_van" THEN Num(-1)
        ELSE IF k \in {"B_Next_vs_standard_increase", "B_Same_vs_standard_increase"}
             THEN Num(-50)
        ELSE Num(20)]

\* a small-fee weight so steep that the top of the fee slider overflows exp
SteepBetas == [MildBetas EXCEPT !["B_Delivery_fee_small"] = Num(-4000)]

\* a table that lacks one coefficient
SparseBetas == [k \in BetaKeys \ {"B_Tracking"} |-> MildBetas[k]]

ModelChoices ==
    { [shippers_beta_values |-> MildBetas, recipients_beta_values |-> MildBetas],
      [shippers_beta_values |-> SteepBetas, recipients_beta_values |-> MildBetas],
      [shippers_beta_values |-> MildBetas, recipients_beta_values |-> SparseBetas] }

\* CSV files a player may upload besides the ones saved from the app
numeral(n) == [t |-> "numeral", v |-> Centi(n)]
empty_field == [t |-> "empty", v |-> 0]
text_field == [t |-> "text", v |-> 0]

Line(header, id, value) ==
    [c \in header |-> IF c = "Round ID" THEN id ELSE value]

CsvFile(header, lines) == [header |-> header, lines |-> lines]

RequiredHeader == Range(required_for_charts)

ForeignFiles ==
    { \* rounds 1 and 3, with a notes column and a text in a chart column
      CsvFile(RequiredHeader \cup {"Notes"},
              << [Line(RequiredHeader \cup {"Notes"}, numeral(1), numeral(11))
                     EXCEPT !["Notes"] = text_field],
                 [Line(RequiredHeader \cup {"Notes"}, numeral(3), numeral(13))
                     EXCEPT !["Total_profit_five_year"] = text_field] >>),
      \* round 2 twice, then round 1: duplicates inside the file, unsorted
      CsvFile(RequiredHeader,
              << Line(RequiredHeader, numeral(2), numeral(21)),
                 Line(RequiredHeader, numeral(2), numeral(22)),
                 Line(RequiredHeader, numeral(1), numeral(23)) >>),
      \* a line whose Round ID field is blank
      CsvFile(RequiredHeader,
              << Line(RequiredHeader, empty_field, numeral(31)),
                 Line(RequiredHeader, numeral(2), numeral(32)) >>),
      \* no Round ID column and no one-year profit column
      CsvFile(RequiredHeader \ {"Round ID", "Total_profit_one_year"},
              << Line(RequiredHeader \ {"Round ID", "Total_profit_one_year"},
                      numeral(1), numeral(41)) >>),
      \* only the five-year emission column is missing
      CsvFile(RequiredHeader \ {"Total_emission_five_year"},
              << Line(RequiredHeader \ {"Total_emission_five_year"},
                      numeral(2), numeral(51)) >>),
      \* an empty file
      CsvFile({}, <<>>) }

-----------------------------------------------------------------------------
(* The leaderboard: app_pre_estimate.py lines 106-350.  The players          *)
(* worksheet is the sequence of its data rows, sheet row 2 first; a row is   *)
(* a function field -> value, "email" a string and every other field a      *)
(* cell, the empty text "" being the non-numeric cell Str.  The text of a    *)
(* number is the number it spells; created_at and updated_at, the wall-clock *)
(* stamps, are left out, and the thirteen attribute columns of each record   *)
(* are one field holding the thirteen values                                 *)

PLAYER_FIELDS ==
    << "email", "best_profit_one_year", "best_profit_round_id",
       "best_emission_one_year", "best_emission_round_id",
       "best_profit_per_parcel", "best_emission_per_parcel",
       "best_profit_attributes", "best_emission_attributes" >>

\* email.strip().lower()
strip_lower(email) ==
    IF email \in {"Ann@x.org ", "ANN@X.ORG"} THEN "ann@x.org"
    ELSE IF email = "Bob@x.org" THEN "bob@x.org" ELSE email

\* f"{x:.6g}": x to six significant digits, ties to the even digit; the
\* hundredths n of x have the digits of x
sig6(n) ==
    LET p == IF n < 1000000 THEN 1 ELSE IF n < 10000000 THEN 10
             ELSE IF n < 100000000 THEN 100 ELSE IF n < 1000000000 THEN 1000 ELSE 10000
        q == n \div p
        r == n % p
    IN  IF 2 * r > p \/ (2 * r = p /\ q % 2 = 1) THEN (q + 1) * p ELSE q * p

format_6g(x) == IF x.k # "num" THEN x ELSE IF x.v < 0 THEN Num(-sig6(-x.v)) ELSE Num(sig6(x.v))

\* float(cell) under try/except: the number of a numeric cell, the default
\* for the empty text
NegInf == [k |-> "-inf", v |-> 0]
PosInf == [k |-> "inf", v |-> 0]
float_or(cell, default) == IF cell.k = "str" THEN default ELSE cell

\* a > b and a < b for floats; every comparison with NaN is False
float_gt(a, b) ==
    /\ a.k = "num"
    /\ b.k \in {"num", "-inf"}
    /\ b.k = "num" => a.v > b.v
float_lt(a, b) ==
    /\ a.k = "num"
    /\ b.k \in {"num", "inf"}
    /\ b.k = "num" => a.v < b.v

\* lines 106-127: _load_players_with_rows, the dict email -> record with its
\* sheet row; of two rows with one email the later one stays
EmailsOf(sheet) == {strip_lower(sheet[i]["email"]) : i \in DOMAIN sheet} \ {""}
LastRowOf(sheet, email_key) ==
    CHOOSE i \in DOMAIN sheet :
        /\ strip_lower(sheet[i]["email"]) = email_key
        /\ \A j \in DOMAIN sheet : strip_lower(sheet[j]["email"]) = email_key => j <= i
_load_players_with_rows(sheet) ==
    [e \in EmailsOf(sheet) |->
        [f \in Range(PLAYER_FIELDS) \cup {"_row"} |->
            IF f = "_row" THEN LastRowOf(sheet, e) + 1 ELSE sheet[LastRowOf(sheet, e)][f]]]

\* {f: "" for f in PLAYER_FIELDS} with rec["email"] = email_key
new_record(email_key) ==
    [f \in Range(PLAYER_FIELDS) |-> IF f = "email" THEN email_key ELSE Str]

\* values = [rec.get(f, "") for f in PLAYER_FIELDS]
values_of(rec) ==
    [f \in Range(PLAYER_FIELDS) |-> IF f \in DOMAIN rec THEN rec[f] ELSE Str]

\* lines 139-147: ws.update(f"A{row_num}", [values]) on the row found by the
\* lookup, ws.append_row(values) when the lookup found none
put_row(sheet, row_num, values) ==
    IF row_num = {} THEN Append(sheet, values)
    ELSE LET n == CHOOSE n \in row_num : TRUE
         IN  [sheet EXCEPT ![n - 1] = values]

\* lines 135-137: the row of the record's email in the sheet as it is now
row_of(sheet, rec) ==
    LET players == _load_players_with_rows(sheet)
        email_key == strip_lower(rec["email"])
    IN  IF email_key \in DOMAIN players THEN {players[email_key]["_row"]} ELSE {}

\* lines 129-147: _write_player_record in one piece
_write_player_record(sheet, rec) == put_row(sheet, row_of(sheet, rec), values_of(rec))

\* the thirteen latest_inputs.get(name, "") of lines 251-291 and 303-343
attributes(latest_inputs) ==
    [c \in Range(COLUMNS) |-> IF c \in DOMAIN latest_inputs THEN latest_inputs[c] ELSE Str]

\* lines 228-243: the one-year demand of the row, 0.0 when it has none
demand_1y_of(row) ==
    IF "Total_demand_one_year" \in DOMAIN row
    THEN float_or(row["Total_demand_one_year"], Num(0))
    ELSE IF "Total_demand" \in DOMAIN row
    THEN (IF row["Total_demand"].k = "str" THEN Num(0)
          ELSE IF isna(row["Total_demand"]) THEN NaN
          ELSE Num(row["Total_demand"].v * 365))
    ELSE Num(0)

\* lines 172-344: update_player_best up to the write, on the dict `players`
\* it loaded; the record it would write and whether anything changed
update_player_best(players, email, round_id, profit_one_year, emission_one_year, row, latest_inputs) ==
    LET email_key == strip_lower(email)
        rec0 == IF email_key \in DOMAIN players THEN players[email_key]
                ELSE new_record(email_key)
        better_profit ==
            float_gt(profit_one_year, float_or(rec0["best_profit_one_year"], NegInf))
        rec1 == IF better_profit
                THEN [rec0 EXCEPT !["best_profit_one_year"] = format_6g(profit_one_year),
                                  !["best_profit_round_id"] = Num(Centi(round_id))]
                ELSE rec0
        better_emis ==
            float_lt(emission_one_year, float_or(rec1["best_emission_one_year"], PosInf))
        rec2 == IF better_emis
                THEN [rec1 EXCEPT !["best_emission_one_year"] = format_6g(emission_one_year),
                                  !["best_emission_round_id"] = Num(Centi(round_id))]
                ELSE rec1
        demand_1y == demand_1y_of(row)
        per_parcel == float_gt(demand_1y, Num(0))
        profit_per == IF per_parcel THEN Div(profit_one_year, demand_1y) ELSE NaN
        emis_per == IF per_parcel THEN Div(emission_one_year, demand_1y) ELSE NaN
        better_profit_per ==
            /\ per_parcel
            /\ float_gt(profit_per, float_or(rec2["best_profit_per_parcel"], NegInf))
        rec3 == IF better_profit_per
                THEN [rec2 EXCEPT !["best_profit_per_parcel"] = format_6g(profit_per),
                                  !["best_profit_attributes"] = attributes(latest_inputs)]
                ELSE rec2
        better_emis_per ==
            /\ per_parcel
            /\ float_lt(emis_per, float_or(rec3["best_emission_per_parcel"], PosInf))
        rec4 == IF better_emis_per
                THEN [rec3 EXCEPT !["best_emission_per_parcel"] = format_6g(emis_per),
                                  !["best_emission_attributes"] = attributes(latest_inputs)]
                ELSE rec3
    IN  [changed |-> better_profit \/ better_emis \/ better_profit_per \/ better_emis_per,
         rec |-> rec4]

\* lines 969-981: update_player_best for the row of a round, from the load
\* to the write, nothing else touching the sheet meanwhile
leaderboard_after(sheet, email, row, latest_inputs) ==
    LET r == update_player_best(_load_players_with_rows(sheet), email,
                                row["Round ID"].v \div 100,
                                row["Total_profit_one_year"],
                                row["Total_emission_one_year"], row, latest_inputs)
    IN  IF r.changed THEN _write_player_record(sheet, r.rec) ELSE sheet

\* the browser sessions that play, and one that is outside every call
Sessions == {1, 2}
Outside ==
    [pc |-> "gate", email |-> "", round |-> 1, fn |-> "", call |-> {},
     rec |-> {}, row_num |-> {}, returned |-> {}]
NoUpdates == [s \in Sessions |-> Outside]

-----------------------------------------------------------------------------
(* Actions of the session: one per script run *)

NotCalled ==
    [status |-> "none", exc |-> "", detail |-> "", stage |-> "", handed |-> {}, rows |-> {},
     work |-> {}]

Here ==
    Session(rounds_results, current_round, hidden_rounds, uploaded_file,
            last_uploaded_rounds_hash, <<>>)

\* the session after a script run that ends in S; every script run builds
\* ctx anew from the cached table (lines 742-743)
Becomes(S) ==
    /\ shippers_geo' = init_environment(shippers_geo).shippers_geo
    /\ environment' = init_environment(shippers_geo).ctx
    /\ rounds_results' = S.rounds_results
    /\ current_round' = S.current_round
    /\ hidden_rounds' = S.hidden_rounds
    /\ uploaded_file' = S.uploaded_file
    /\ last_uploaded_rounds_hash' = S.last_uploaded_rounds_hash
    /\ message' = S.message

\* the run logic if the counter advanced outside the `if row is not None`
run_always_increments(S, curr, result) ==
    IF result.status = "raised"
    THEN [S EXCEPT !.current_round = curr + 1,
                   !.message = Append(@, Msg("round_failed", curr, <<>>))]
    ELSE [S EXCEPT !.rounds_results = concat(@, <<CHOOSE r \in result.rows : TRUE>>),
                   !.current_round = curr + 1,
                   !.message = Append(@, Msg("appended", curr, <<>>))]

\* the run logic if the new row replaced the history instead of joining it
run_replaces_history(S, curr, result) ==
    IF result.status = "raised"
    THEN [S EXCEPT !.message = Append(@, Msg("round_failed", curr, <<>>))]
    ELSE [S EXCEPT !.rounds_results = <<CHOOSE r \in result.rows : TRUE>>,
                   !.current_round = curr + 1,
                   !.message = Append(@, Msg("appended", curr, <<>>))]

\* app_pre_estimate.py lines 953-966: the try / except around the call and
\* the append
run_logic(S, curr, result) ==
    IF result.status = "raised"
    THEN [S EXCEPT !.message = Append(@, Msg("round_failed", curr, <<>>))]
    ELSE [S EXCEPT !.rounds_results = concat(@, <<CHOOSE r \in result.rows : TRUE>>),
                   !.current_round = curr + 1,
                   !.message = Append(@, Msg("appended", curr, <<>>))]

\* "Run this round" (lines 934-981), then the charts and tables
RunRound ==
    /\ current_round <= MaxRound
    /\ \E w \in WidgetChoices :
        LET curr == current_round
            input == latest_inputs_series(w)
            env == CHOOSE e \in init_environment(shippers_geo).ctx : TRUE
            result == compute_round_result(curr, input, COLUMNS, models, env)
        IN  /\ series' = {caller_series_after(input, COLUMNS)}
            /\ outcome' = result
            /\ calls' = <<[series |-> input, outcome |-> result]>>
            /\ players_sheet' =
                  IF result.status = "returned" /\ player_email # ""
                  THEN leaderboard_after(players_sheet, player_email,
                                         CHOOSE r \in result.rows : TRUE, input)
                  ELSE players_sheet
            /\ Becomes(render_charts_and_tables(run_logic(Here, curr, result)))
    /\ event' = "run"
    /\ UNCHANGED <<models, player_email, updates>>

\* "Reset" (lines 928-932); st.rerun() starts the script again
Reset ==
    /\ Becomes(render_charts_and_tables(
           [Here EXCEPT !.current_round = 1, !.rounds_results = <<>>,
                        !.hidden_rounds = {}]))
    /\ event' = "reset"
    /\ UNCHANGED <<models, series, outcome, calls, player_email, players_sheet, updates>>

\* "Download CSV (displayed)" (charts.py lines 213-221): the file saved from
\* the rounds on display
download_csv(rounds, hidden) == to_csv(rounds_data(rounds, hidden))

\* the player puts a file into the uploader (charts.py lines 225-229): one
\* made elsewhere, or the one just downloaded; the script runs with it
UploadFile ==
    /\ panel_rendered(rounds_results, hidden_rounds)
    /\ \E file \in ForeignFiles \cup {download_csv(rounds_results, hidden_rounds)} :
        Becomes(render_charts_and_tables([Here EXCEPT !.uploaded_file = {file}]))
    /\ event' = "upload"
    /\ UNCHANGED <<models, series, outcome, calls, player_email, players_sheet, updates>>

\* the player hides rounds in the Display panel (lines 877-888)
HideRounds ==
    /\ rounds_results # <<>>
    /\ ~astype_int_raises(rounds_results)
    /\ \E hid \in SUBSET {py_int(rounds_results[i]["Round ID"]).v \div 100 :
                             i \in DOMAIN rounds_results} :
        /\ Cardinality(hid) <= MaxHidden
        /\ hid # hidden_rounds
        /\ Becomes(render_charts_and_tables([Here EXCEPT !.hidden_rounds = hid]))
    /\ event' = "hide"
    /\ UNCHANGED <<models, series, outcome, calls, player_email, players_sheet, updates>>

Init ==
    /\ current_round = 1
    /\ rounds_results = <<>>
    /\ hidden_rounds = {}
    /\ uploaded_file = {}
    /\ last_uploaded_rounds_hash = {}
    /\ message = <<>>
    /\ models \in ModelChoices
    /\ series = {}
    /\ outcome = NotCalled
    /\ event = "load"
    /\ shippers_geo = init_environment(LoadedGeo).shippers_geo
    /\ environment = init_environment(LoadedGeo).ctx
    /\ calls = <<>>
    /\ player_email = ""
    /\ players_sheet = <<>>
    /\ updates = NoUpdates

Next == RunRound \/ Reset \/ UploadFile \/ HideRounds

Spec == Init /\ [][Next]_vars

-----------------------------------------------------------------------------
(* compute_round_result called directly, on Series that need not come from   *)
(* the widgets                                                               *)

MaxEdits == 1       \* fields of the base Series that a call changes

Missing == [k |-> "missing", v |-> 0]

\* what a field may be changed to: a number, NaN, a text, or no entry
EditValues(c) ==
    {NaN, Str, Missing} \cup
    ( IF c \in ShareLevers
      THEN {Num(Centi(-50)), Num(-1), Num(0), Num(Centi(100)), Num(Centi(100) + 1),
            Num(Centi(150))}
      ELSE IF c \in Range(ServiceLevers)
      THEN {Num(Centi(-1)), Num(0), Num(40), Num(50), Num(Centi(1)), Num(150), Num(Centi(2))}
      ELSE {Num(0), Num(50), Num(Centi(20))} )

BaseSeries == latest_inputs_series(DefaultWidgets)

Edits ==
    UNION { {e \in [cs -> UNION {EditValues(c) : c \in cs}] :
                \A c \in cs : e[c] \in EditValues(c)} :
            cs \in {x \in SUBSET Range(COLUMNS) : Cardinality(x) <= MaxEdits} }

\* the base Series with the fields of e changed or removed
Edited(e) ==
    [c \in {x \in DOMAIN BaseSeries : x \notin DOMAIN e \/ e[x] # Missing} |->
        IF c \in DOMAIN e THEN e[c] ELSE BaseSeries[c]]

\* a caller other than the app: the Series is drawn first, then the call is
\* made once
InitCompute ==
    /\ current_round = 1
    /\ rounds_results = <<>>
    /\ hidden_rounds = {}
    /\ uploaded_file = {}
    /\ last_uploaded_rounds_hash = {}
    /\ message = <<>>
    /\ models \in ModelChoices
    /\ series \in {{Edited(e)} : e \in Edits}
    /\ outcome = NotCalled
    /\ event = "load"
    /\ shippers_geo = init_environment(LoadedGeo).shippers_geo
    /\ environment = init_environment(LoadedGeo).ctx
    /\ calls = <<>>
    /\ player_email = ""
    /\ players_sheet = <<>>
    /\ updates = NoUpdates

CallCompute ==
    /\ outcome = NotCalled
    /\ \E s \in series : \E env \in environment :
        /\ outcome' = compute_round_result(current_round, s, COLUMNS, models, env)
        /\ calls' = <<[series |-> s, outcome |-> outcome']>>
        /\ series' = {caller_series_after(s, COLUMNS)}
    /\ event' = "call"
    /\ UNCHANGED <<current_round, rounds_results, hidden_rounds, uploaded_file,
                   last_uploaded_rounds_hash, message, models,
                   shippers_geo, environment, player_email, players_sheet, updates>>

NextCompute == CallCompute

SpecCompute == InitCompute /\ [][NextCompute]_vars

-----------------------------------------------------------------------------
(* A caller that builds the environment itself: init_environment on its own  *)
(* geography table, or a ctx dict of its own making, then some calls of      *)
(* compute_round_result                                                      *)

MaxCalls == 2       \* calls of compute_round_result per behaviour

\* a town small enough for the floored denominators to stay in range
SmallTown ==
    [ctx EXCEPT !.total_area = Num(Centi(100)), !.CBD_area_for_microhub = Num(Centi(4)),
                !.number_of_CBD_deliveries = Num(Centi(2)),
                !.number_of_non_CBD_deliveries = Num(Centi(8)),
                !.number_of_deliveries = Num(Centi(10))]

\* environments a caller makes by hand: a one-hour working day, and
\* capacities, hours or a speed of zero or at the floor
HandMadeEnvironments ==
    { [ctx EXCEPT !.Vehicels_daily_operating_hours = Num(Centi(1))],
      [SmallTown EXCEPT !.Vehicels_daily_operating_hours = Num(0)],
      [SmallTown EXCEPT !.diesel_van_cap = Num(0)],
      [SmallTown EXCEPT !.electric_van_cap = Eps],
      [SmallTown EXCEPT !.cargo_bike_cap = Num(0)],
      [SmallTown EXCEPT !.cargo_bike_speed = Num(0)] }

\* the Series of the calls: the defaults, the diesel-only round without
\* microhub, the all-electric round with microhub, the small fee at its top,
\* no uplift for the faster tiers, a diesel share above 100
DieselOnly ==
    [BaseSeries EXCEPT !["Share_of_diesel_vans"] = Num(Centi(100)),
                       !["Share_of_electric_vans"] = Num(0),
                       !["Microhub_delivery"] = Num(0)]
ElectricWithMicrohub ==
    [BaseSeries EXCEPT !["Share_of_diesel_vans"] = Num(0),
                       !["Share_of_electric_vans"] = Num(Centi(100)),
                       !["Microhub_delivery"] = Num(Centi(1))]
TopSmallFee == [BaseSeries EXCEPT !["Delivery_fee_small"] = Num(Centi(20))]
NoUplift ==
    [BaseSeries EXCEPT !["Next_day_delivery_increase"] = Num(0),
                       !["Same_day_delivery_increase"] = Num(0)]

OverfullDiesel == [BaseSeries EXCEPT !["Share_of_diesel_vans"] = Num(Centi(120))]

SeriesChoices ==
    {BaseSeries, DieselOnly, ElectricWithMicrohub, TopSmallFee, NoUplift, OverfullDiesel}

\* coefficient tables: no entry at all, an intercept of 40, and weights on
\* the fees and uplifts only
EmptyBetas == [k \in {} |-> Num(0)]
SureBetas == [MildBetas EXCEPT !["ASC_accept"] = Num(Centi(40))]
FeeOnlyBetas ==
    [k \in BetaKeys |->
        IF k \in {"ASC_accept", "B_Delivery_fee_small", "B_Delivery_fee_Medium",
                  "B_Next_vs_standard_increase", "B_Same_vs_standard_increase"}
        THEN MildBetas[k] ELSE Num(0)]

\* a table that also holds weights for the large fee and the electric share
ExtraBetas ==
    [k \in BetaKeys \cup {"B_Delivery_fee_Large", "B_Electric_van"} |->
        IF k = "B_Delivery_fee_Large" THEN Num(-5)
        ELSE IF k = "B_Electric_van" THEN Num(1)
        ELSE MildBetas[k]]

Models(shippers, recipients) ==
    [shippers_beta_values |-> shippers, recipients_beta_values |-> recipients]

MoreModelChoices ==
    ModelChoices \cup
    { Models(EmptyBetas, MildBetas), Models(MildBetas, EmptyBetas),
      Models(SparseBetas, MildBetas), Models(SureBetas, SureBetas),
      Models(FeeOnlyBetas, FeeOnlyBetas), Models(ExtraBetas, ExtraBetas) }

InitCaller ==
    /\ current_round = 1
    /\ rounds_results = <<>>
    /\ hidden_rounds = {}
    /\ uploaded_file = {}
    /\ last_uploaded_rounds_hash = {}
    /\ message = <<>>
    /\ models \in MoreModelChoices
    /\ series = {}
    /\ outcome = NotCalled
    /\ event = "load"
    /\ shippers_geo \in GeoTables
    /\ environment = {}
    /\ calls = <<>>
    /\ player_email = ""
    /\ players_sheet = <<>>
    /\ updates = NoUpdates

\* ctx = init_environment(shippers_geo)
InitEnvironment ==
    /\ event = "load"
    /\ LET r == init_environment(shippers_geo)
       IN  /\ shippers_geo' = r.shippers_geo
           /\ environment' = r.ctx
           /\ event' = IF r.exc = "" THEN "environment" ELSE r.exc
    /\ UNCHANGED <<current_round, rounds_results, hidden_rounds, uploaded_file,
                   last_uploaded_rounds_hash, message, models, series, outcome, calls,
                   player_email, players_sheet, updates>>

\* ctx = dict(...), written by the caller
ConfigureEnvironment ==
    /\ event = "load"
    /\ shippers_geo = LoadedGeo
    /\ \E env \in HandMadeEnvironments : environment' = {env}
    /\ event' = "configured"
    /\ UNCHANGED <<current_round, rounds_results, hidden_rounds, uploaded_file,
                   last_uploaded_rounds_hash, message, models, series, outcome,
                   shippers_geo, calls, player_email, players_sheet, updates>>

\* row = compute_round_result(1, series, COLUMNS, models, ctx)
CallWithEnvironment ==
    /\ Len(calls) < MaxCalls
    /\ \E s \in SeriesChoices : \E env \in environment :
        /\ outcome' = compute_round_result(current_round, s, COLUMNS, models, env)
        /\ calls' = Append(calls, [series |-> s, outcome |-> outcome'])
        /\ series' = {caller_series_after(s, COLUMNS)}
    /\ event' = "call"
    /\ UNCHANGED <<current_round, rounds_results, hidden_rounds, uploaded_file,
                   last_uploaded_rounds_hash, message, models,
                   shippers_geo, environment, player_email, players_sheet, updates>>

NextCaller == InitEnvironment \/ ConfigureEnvironment \/ CallWithEnvironment

SpecCaller == InitCaller /\ [][NextCaller]_vars

-----------------------------------------------------------------------------
(* Two browser sessions on one players worksheet.  Each call of              *)
(* get_or_create_player and update_player_best is three steps apart in time: *)
(* the load it decides on, the load inside _write_player_record that finds   *)
(* the row, and the ws.update or ws.append_row; the Sheets API serialises    *)
(* the requests and nothing more.  A round is what update_player_best is     *)
(* handed of it.  A session's email is in its entry of `updates`             *)

MaxUpdates == 2     \* calls of update_player_best per session

\* what players type at the gate, each with its "@"
RawEmails == {"Ann@x.org ", "ann@x.org", "Bob@x.org"}

BoardRow(profit, emission, demand) ==
    ("Total_profit_one_year" :> Num(profit)) @@
    ("Total_emission_one_year" :> Num(emission)) @@
    ("Total_demand_one_year" :> Num(demand))

\* the rounds played: the first has the least emission, the second has the
\* first's profit to six digits and no demand, the third the best profit
BoardRounds ==
    { [row |-> BoardRow(1234561, 800000, 365000), latest_inputs |-> BaseSeries],
      [row |-> BoardRow(1234564, 900000, 0), latest_inputs |-> BaseSeries],
      [row |-> BoardRow(2000000, 950000, 730000), latest_inputs |-> DieselOnly] }

\* a worksheet left by earlier play
EarlierSheet ==
    << [new_record("ann@x.org") EXCEPT !["best_profit_one_year"] = Num(1234560),
                                 !["best_profit_round_id"] = Num(Centi(1)),
                                 !["best_emission_one_year"] = Num(850000),
                                 !["best_emission_round_id"] = Num(Centi(1))] >>

\* update_player_best(email, ...) of the call a session is in, on the dict
\* it loaded
update_of(players, email, call) ==
    update_player_best(players, email, call.round_id,
                       call.row["Total_profit_one_year"],
                       call.row["Total_emission_one_year"], call.row, call.latest_inputs)

\* the write with the comparisons made again on the sheet as it is
write_step_compared_again(sheet, u) ==
    LET rec == CHOOSE r \in u.rec : TRUE
        again == IF u.call = {} THEN rec
                 ELSE update_of(_load_players_with_rows(sheet), u.email,
                                CHOOSE c \in u.call : TRUE).rec
    IN  put_row(sheet, u.row_num, values_of(again))

\* lines 139-147, as the last step of a call: the record in hand goes to the
\* row the lookup found
write_step(sheet, u) ==
    put_row(sheet, u.row_num, values_of(CHOOSE r \in u.rec : TRUE))

BoardIdle ==
    UNCHANGED <<current_round, rounds_results, hidden_rounds, uploaded_file,
                last_uploaded_rounds_hash, message, models, series, outcome,
                shippers_geo, environment, calls, player_email>>

\* lines 611-629 and 149-170: the gate, get_or_create_player(email) up to
\* its write
EnterGame(s) ==
    /\ updates[s].pc = "gate"
    /\ \E email \in RawEmails :
        LET email_key == strip_lower(email)
            players == _load_players_with_rows(players_sheet)
        IN  updates' = [updates EXCEPT ![s] =
                IF email_key \in DOMAIN players
                THEN [@ EXCEPT !.pc = "idle", !.fn = "get_or_create_player",
                               !.email = players[email_key]["email"]]
                ELSE [@ EXCEPT !.pc = "lookup", !.fn = "get_or_create_player",
                               !.email = email_key,
                               !.rec = {new_record(email_key)}]]
    /\ event' = "enter"
    /\ UNCHANGED players_sheet
    /\ BoardIdle

\* lines 968-981 and 172-346: a round is run and update_player_best decides
\* on the sheet it loads; with nothing changed it returns False.  The
\* get_or_create_player of line 671 finds the record the gate left and
\* writes nothing
BeginUpdate(s) ==
    /\ updates[s].pc = "idle"
    /\ updates[s].round <= MaxUpdates
    /\ \E round \in BoardRounds :
        LET u == updates[s]
            call == [round_id |-> u.round, row |-> round.row,
                     latest_inputs |-> round.latest_inputs]
            r == update_of(_load_players_with_rows(players_sheet), u.email, call)
        IN  updates' = [updates EXCEPT ![s] =
                IF r.changed
                THEN [u EXCEPT !.pc = "lookup", !.fn = "update_player_best",
                               !.call = {call}, !.rec = {r.rec}, !.returned = {}]
                ELSE [u EXCEPT !.fn = "update_player_best", !.call = {call},
                               !.rec = {}, !.returned = {FALSE},
                               !.round = u.round + 1]]
    /\ event' = "update"
    /\ UNCHANGED players_sheet
    /\ BoardIdle

\* lines 134-137: _write_player_record loads the sheet for the row
LookUpRow(s) ==
    /\ updates[s].pc = "lookup"
    /\ updates' = [updates EXCEPT ![s] =
            [@ EXCEPT !.pc = "put",
                      !.row_num = row_of(players_sheet,
                                         CHOOSE r \in updates[s].rec : TRUE)]]
    /\ event' = "lookup"
    /\ UNCHANGED players_sheet
    /\ BoardIdle

\* lines 139-147 and 348: the write, and update_player_best returns True
PutRow(s) ==
    /\ updates[s].pc = "put"
    /\ players_sheet' = write_step(players_sheet, updates[s])
    /\ updates' = [updates EXCEPT ![s] =
            IF @.fn = "update_player_best"
            THEN [@ EXCEPT !.pc = "idle", !.row_num = {}, !.returned = {TRUE},
                           !.round = @ + 1]
            ELSE [@ EXCEPT !.pc = "idle", !.row_num = {}, !.rec = {}]]
    /\ event' = "put"
    /\ BoardIdle

InitBoard ==
    /\ current_round = 1
    /\ rounds_results = <<>>
    /\ hidden_rounds = {}
    /\ uploaded_file = {}
    /\ last_uploaded_rounds_hash = {}
    /\ message = <<>>
    /\ models = Models(MildBetas, MildBetas)
    /\ series = {}
    /\ outcome = NotCalled
    /\ event = "load"
    /\ shippers_geo = LoadedGeo
    /\ environment = {}
    /\ calls = <<>>
    /\ player_email = ""
    /\ players_sheet = <<>>
    /\ updates = NoUpdates

NextBoard ==
    \E s \in Sessions : EnterGame(s) \/ BeginUpdate(s) \/ LookUpRow(s) \/ PutRow(s)

SpecBoard == InitBoard /\ [][NextBoard]_vars

\* one session alone on the worksheet, which earlier play may have filled
InitSolo ==
    /\ current_round = 1
    /\ rounds_results = <<>>
    /\ hidden_rounds = {}
    /\ uploaded_file = {}
    /\ last_uploaded_rounds_hash = {}
    /\ message = <<>>
    /\ models = Models(MildBetas, MildBetas)
    /\ series = {}
    /\ outcome = NotCalled
    /\ event = "load"
    /\ shippers_geo = LoadedGeo
    /\ environment = {}
    /\ calls = <<>>
    /\ player_email = ""
    /\ players_sheet \in {<<>>, EarlierSheet}
    /\ updates = NoUpdates

NextSolo == EnterGame(1) \/ BeginUpdate(1) \/ LookUpRow(1) \/ PutRow(1)

SpecSolo == InitSolo /\ [][NextSolo]_vars

-----------------------------------------------------------------------------
(* Properties *)

RoundIds(df) == {df[i]["Round ID"] : i \in DOMAIN df}

\* C1: when the Series lacks one of the seven non-boolean fields,
\* compute_round_result raises an error naming the absent field before any
\* probability or simulation step, and returns no RoundResult
C1_MissingFieldRaisesNamed ==
    \A s \in series :
        \A c \in NonBooleanLevers :
            (outcome.status # "none" /\ c \notin DOMAIN s /\ ~astype_float_raises(s))
            => /\ outcome.status = "raised"
               /\ outcome.stage = "sanitize"
               /\ outcome.detail = c
               /\ outcome.rows = {}

\* C2: a Run whose compute_round_result raises leaves the history and the
\* round counter as they were and reports the error with the round number
C2_FailedRunKeepsSession ==
    [][ (event' = "run" /\ outcome'.status = "raised")
        => /\ rounds_results' = rounds_results
           /\ current_round' = current_round
           /\ Msg("round_failed", current_round, <<>>) \in Range(message') ]_vars

\* a round failed although earlier rounds are in the history
C2_Witness ==
    /\ outcome.status = "raised"
    /\ rounds_results # <<>>
    /\ Msg("round_failed", current_round, <<>>) \in Range(message)

\* C3: the Round IDs of the history are strictly increasing (so pairwise
\* distinct) and all below current_round
C3_IdsIncreasingBelowCounter ==
    /\ \A i, j \in DOMAIN rounds_results :
          i < j => py_lt(rounds_results[i]["Round ID"], rounds_results[j]["Round ID"])
    /\ \A i \in DOMAIN rounds_results :
          py_lt(rounds_results[i]["Round ID"], Num(Centi(current_round)))

\* every field of the row old has the same value in the row new
RowKept(old, new) == \A c \in DOMAIN old : c \in DOMAIN new /\ new[c] = old[c]

\* C4, as stated: up to the next Reset every row of the history stays in
\* it with its field values unchanged, whatever Run or CSV import follows
C4_AppendOnly ==
    [][ event' = "reset" \/ \A i \in DOMAIN rounds_results :
                    \E j \in DOMAIN rounds_results' :
                        RowKept(rounds_results[i], rounds_results'[j]) ]_vars

\* the Round IDs of the lines of a CSV file, as the import reads them
FileIds(file) == RoundIds(coerce_required(read_csv(file)))

\* C4, amended: up to the next Reset every Round ID of the history stays in
\* it; its row keeps its field values unless a CSV import carries a line
\* with that Round ID, which then replaces the row
C4_IdsKeptRowsReplacedOnlyByImport ==
    [][ event' = "reset" \/ \A i \in DOMAIN rounds_results :
                    \E j \in DOMAIN rounds_results' :
                        /\ rounds_results'[j]["Round ID"] = rounds_results[i]["Round ID"]
                        /\ \/ RowKept(rounds_results[i], rounds_results'[j])
                           \/ /\ event' = "upload"
                              /\ \E m \in Range(message') : m.kind = "imported"
                              /\ \E file \in uploaded_file' :
                                    rounds_results[i]["Round ID"] \in FileIds(file) ]_vars

\* an import has replaced the row of a round that was run in the session
C4_Witness ==
    /\ \E m \in Range(message) : m.kind = "imported"
    /\ outcome.status = "returned"
    /\ \E i \in DOMAIN rounds_results :
          /\ rounds_results[i]["Round ID"] = Num(Centi(1))
          /\ rounds_results[i]["Total_profit_one_year"] = Num(Centi(23))
    /\ Len(rounds_results) >= 2

\* the row r with the columns cols, NaN where r has no such column
Filled(r, cols) == [c \in cols |-> IF c \in DOMAIN r THEN r[c] ELSE NaN]

\* new is the merge of the rows old with the imported rows up: one row per
\* Round ID of either, the last imported row of that ID if there is one and
\* the old row otherwise, in ascending order of Round ID (a NaN ID last)
IsMergeOf(new, old, up) ==
    LET cols == SeqUnion(old \o up)
    IN  /\ RoundIds(new) = RoundIds(old) \cup RoundIds(up)
        /\ \A i, j \in DOMAIN new : i # j => new[i]["Round ID"] # new[j]["Round ID"]
        /\ \A i \in DOMAIN new :
              IF new[i]["Round ID"] \in RoundIds(up)
              THEN \E k \in DOMAIN up :
                      /\ new[i] = Filled(up[k], cols)
                      /\ up[k]["Round ID"] = new[i]["Round ID"]
                      /\ \A l \in DOMAIN up :
                            up[l]["Round ID"] = new[i]["Round ID"] => l <= k
              ELSE \E k \in DOMAIN old : new[i] = Filled(old[k], cols)
        /\ \A i, j \in DOMAIN new :
              i < j => /\ ~isna(new[i]["Round ID"])
                       /\ isna(new[j]["Round ID"])
                          \/ new[i]["Round ID"].v < new[j]["Round ID"].v

\* a script run that merged the uploaded file
Imported == event' = "upload" /\ \E m \in Range(message') : m.kind = "imported"

\* C5: a successful import sets the history to the union of the existing and
\* the imported rows, one row per Round ID, the imported row winning and the
\* last duplicate of the file winning, sorted ascending by Round ID
C5_ImportIsMerge ==
    [][ Imported
        => \E file \in uploaded_file' :
              IsMergeOf(rounds_results', rounds_results,
                        coerce_required(read_csv(file))) ]_vars

\* the file with round 2 twice and round 1 was merged into the history of a
\* session that had run a round; the later round-2 line is the one kept
C5_Witness ==
    /\ Msg("imported", 3, <<>>) \in Range(message)
    /\ outcome.status = "returned"
    /\ Len(rounds_results) = 2
    /\ \E i \in DOMAIN rounds_results :
          /\ rounds_results[i]["Round ID"] = Num(Centi(2))
          /\ rounds_results[i]["Total_profit_one_year"] = Num(Centi(22))

\* a script run whose uploaded file is readable, was not processed before
\* and lacks a required column
LacksRequired(file) ==
    /\ ~read_csv_raises(file)
    /\ \E c \in Range(required_for_charts) : c \notin file.header

\* C6: an import whose file lacks a required column is rejected as a whole:
\* the error lists the missing columns, the history and the counter stay
C6_MissingColumnsRejected ==
    [][ (event' = "upload" /\ \E file \in uploaded_file' : LacksRequired(file))
        => /\ rounds_results' = rounds_results
           /\ current_round' = current_round
           /\ \E file \in uploaded_file' :
                 \E m \in Range(message') :
                    /\ m.kind = "missing_columns"
                    /\ Range(m.cols) = Range(required_for_charts) \ file.header
                    /\ Len(m.cols) = Cardinality(Range(m.cols)) ]_vars

\* a file without two required columns was rejected in a session with rounds
C6_Witness ==
    /\ \E m \in Range(message) : m.kind = "missing_columns" /\ Len(m.cols) = 2
    /\ \E file \in uploaded_file : LacksRequired(file)
    /\ Len(rounds_results) >= 2

IsNumeric(s) == \A c \in DOMAIN s : s[c].k \in {"num", "nan"}

\* C8: for a numeric Series the levers handed to the evaluators and the
\* simulation are sanitized: both shares in [0, 100] (above 100 becomes 100,
\* below 0 becomes 0), each service lever 0 or 1; an out-of-range share is
\* clamped, not rejected
C8_HandedLeversSanitized ==
    \A s \in series :
        (outcome.status # "none" /\ IsNumeric(s))
        => /\ outcome.handed # {}
           /\ outcome.stage # "sanitize"
           /\ \A cur \in outcome.handed :
                 /\ \A c \in ShareLevers :
                       /\ cur[c].k = "num" /\ cur[c].v >= 0 /\ cur[c].v <= Centi(100)
                       /\ (c \in DOMAIN s /\ s[c].k = "num")
                          => /\ s[c].v > Centi(100) => cur[c].v = Centi(100)
                             /\ s[c].v < 0 => cur[c].v = 0
                             /\ (s[c].v >= 0 /\ s[c].v <= Centi(100)) => cur[c] = s[c]
                 /\ \A b \in Range(ServiceLevers) : cur[b] \in {Num(0), Num(Centi(1))}

\* a call with a share of 150 returned, having handed on 100
C8_Witness ==
    /\ outcome.status = "returned"
    /\ \E s \in series : \E c \in ShareLevers :
          /\ c \in DOMAIN s /\ s[c] = Num(Centi(150))
          /\ \A cur \in outcome.handed : cur[c] = Num(Centi(100))

\* C9: clamping a share twice gives what clamping it once gives
C9_ClampIdempotent ==
    \A s \in series :
        outcome.status # "none"
        => \A c \in ShareLevers :
              LET x == to_numeric(reindex(s, COLUMNS)[c])
              IN  /\ clamp_share(clamp_share(x)) = clamp_share(x)
                  /\ \A cur \in outcome.handed :
                        cur[c] = clamp_share(x) /\ clamp_share(cur[c]) = cur[c]

\* a call clamped a share that was out of range
C9_Witness ==
    /\ outcome.status = "returned"
    /\ \E s \in series : \E c \in ShareLevers :
          /\ c \in DOMAIN s /\ s[c].k = "num"
          /\ s[c] # clamp_share(s[c])

\* a service lever that is absent, NaN or no number
Malformed(s, b) == b \notin DOMAIN s \/ s[b].k \in {"nan", "str"}

\* C10: a service lever that is missing, NaN or non-numeric is coerced to 0
\* and the round is computed; it never makes compute_round_result fail
C10_MalformedServiceLeverCoerced ==
    \A s \in series :
        \A b \in Range(ServiceLevers) :
            ( /\ outcome.status # "none"
              /\ Malformed(s, b)
              /\ \A c \in DOMAIN s : c # b => s[c] = BaseSeries[c]
              /\ DOMAIN s \cup {b} = DOMAIN BaseSeries
              /\ models.shippers_beta_values = MildBetas
              /\ models.recipients_beta_values = MildBetas )
            => /\ outcome.status = "returned"
               /\ \A cur \in outcome.handed : cur[b] = Num(0)

\* the table with weight 0 for every coefficient it lacks
ZeroFilled(beta_values) ==
    [k \in BetaKeys |-> IF k \in DOMAIN beta_values THEN beta_values[k] ELSE Num(0)]

\* the sanitized Series of the calls made so far
HandedSoFar == UNION {calls[i].outcome.handed : i \in DOMAIN calls}

\* C11: an evaluator given a coefficient table that lacks a key reads the
\* key as weight 0 and returns a probability without raising, for the
\* shippers and for the recipients; with an empty table that probability is 0.5
C11_MissingCoefficientIsZeroWeight ==
    \A cur \in HandedSoFar :
        LET sb == models.shippers_beta_values
            rb == models.recipients_beta_values
            ps == calculate_probability_of_selecting_by_shippers(sb, cur)
            pr == calculate_probability_of_selecting_by_recipients(rb, cur)
        IN  /\ DOMAIN sb # BetaKeys
               => /\ ps.exc = ""
                  /\ ps = calculate_probability_of_selecting_by_shippers(ZeroFilled(sb), cur)
                  /\ sb = EmptyBetas => ps.p = Num(50)
            /\ DOMAIN rb # BetaKeys
               => /\ pr.exc = ""
                  /\ pr = calculate_probability_of_selecting_by_recipients(ZeroFilled(rb), cur)
                  /\ rb = EmptyBetas => pr.p = Num(50)

\* C11 for the shipper evaluator alone, which reads every weight with a default
ShipperMissingCoefficientIsZeroWeight ==
    \A cur \in HandedSoFar :
        LET sb == models.shippers_beta_values
            ps == calculate_probability_of_selecting_by_shippers(sb, cur)
        IN  DOMAIN sb # BetaKeys
            => /\ ps.exc = ""
               /\ ps = calculate_probability_of_selecting_by_shippers(ZeroFilled(sb), cur)
               /\ sb = EmptyBetas => ps.p = Num(50)

\* C12: for a valid lever vector and complete coefficient tables both
\* evaluators return a probability strictly between 0 and 1; neither raises
C12_ProbabilitiesStrictlyInside ==
    \A cur \in HandedSoFar :
        LET sb == models.shippers_beta_values
            rb == models.recipients_beta_values
            ps == calculate_probability_of_selecting_by_shippers(sb, cur)
            pr == calculate_probability_of_selecting_by_recipients(rb, cur)
        IN  /\ DOMAIN sb = BetaKeys => (ps.exc = "" /\ ps.p.v > 0 /\ ps.p.v < Centi(1))
            /\ DOMAIN rb = BetaKeys => (pr.exc = "" /\ pr.p.v > 0 /\ pr.p.v < Centi(1))

\* C12 for utilities of moderate size: between -700 and 36
ModerateUtilitiesStrictlyInside ==
    \A cur \in HandedSoFar :
        LET sb == models.shippers_beta_values
            u == utility(sb, cur, ShipperTerms, "get", ZeroFilled(sb)["ASC_accept"])
            ps == calculate_probability_of_selecting_by_shippers(sb, cur)
        IN  (u.exc = "" /\ u.p.v >= -Centi(700) /\ u.p.v <= Centi(36))
            => (ps.exc = "" /\ ps.p.v > 0 /\ ps.p.v < Centi(1))

\* the five legs of the simulation: the operating time and fleet count of each
Legs ==
    { <<"Time_collection_diesel", "Fleet_collection_diesel">>,
      <<"Time_collection_electric", "Fleet_collection_electric">>,
      <<"Time_delivery_diesel", "Fleet_delivery_diesel">>,
      <<"Time_delivery_electric", "Fleet_delivery_electric">>,
      <<"Time_delivery_bike", "Fleet_delivery_bike">> }

\* n is the least whole number with n * hours >= time
IsCeiling(n, time, hours) ==
    /\ n.k = "num" /\ n.v >= 0 /\ n.v % 100 = 0
    /\ (n.v \div 100) * hours.v >= time.v
    /\ (n.v \div 100 - 1) * hours.v < time.v

\* C13: with positive operating hours and non-negative times, each of the
\* five fleet counts is a non-negative whole number, the least n with
\* n * hours >= operating time
C13_FleetIsCeiling ==
    \A w \in outcome.work :
        \A leg \in Legs :
            (w.hours.v > 0 /\ w[leg[1]].v >= 0) => IsCeiling(w[leg[2]], w[leg[1]], w.hours)

\* a call returned with a fleet of at least two vehicles whose time does not
\* fill the last vehicle's day, and with an idle leg that needs no vehicle
C13_Witness ==
    /\ outcome.status = "returned"
    /\ \E w \in outcome.work :
          /\ \E leg \in Legs :
                /\ w[leg[2]].v >= Centi(2)
                /\ (w[leg[2]].v \div 100) * w.hours.v > w[leg[1]].v
          /\ \E leg \in Legs : w[leg[2]].v = 0 /\ w[leg[1]].v = 0

\* the horizons and the daily quantities scaled to them
Horizons == {<<"two_months", 60>>, <<"one_year", 365>>, <<"five_year", 1825>>}
Scaled ==
    { <<"Total_costs_", "Total_costs">>, <<"Total_revenue_", "Total_revenue">>,
      <<"Total_emission_", "Total_emission">>, <<"Total_profit_", "Total_profit">>,
      <<"Total_demand_", "Total_demand">> }

\* C14: in every RoundResult the horizon value of revenue, cost, emission,
\* profit and demand is the daily value times the day count of the horizon:
\* 60 for two_months, 365 for one_year, 1825 for five_year
C14_HorizonIsDailyTimesDays ==
    \A row \in outcome.rows :
        \A h \in Horizons : \A q \in Scaled :
            LET horizon == row[q[1] \o h[1]]
                daily == row[q[2]]
            IN  IF isna(daily) THEN isna(horizon)
                ELSE horizon.k = "num" /\ horizon.v = daily.v * h[2]

\* a round with a positive revenue and a loss, scaled to five years
C14_Witness ==
    /\ outcome.status = "returned"
    /\ \E row \in outcome.rows :
          /\ row["Total_revenue"].v > 0
          /\ row["Total_profit"].v < 0
          /\ row["Total_profit_five_year"].v = row["Total_profit"].v * 1825
          /\ row["Total_demand_two_months"].v = row["Total_demand"].v * 60

\* the fee of a standard delivery, weighted by the parcel sizes
WeightedFee(row, env) ==
    SumSeq(<< Mul(row["Delivery_fee_small"], env.small_parcel_frequency),
              Mul(row["Delivery_fee_Medium"], env.medium_parcel_frequency),
              Mul(row["Delivery_fee_Large"], env.large_parcel_frequency) >>)

\* the revenue of a RoundResult as the tier-weighted sum, from the fields of
\* the row and the environment env
TierRevenue(row, env) ==
    LET attraction ==
            Prod(<<env.number_of_deliveries, row["Recipient_Probability"],
                   row["Shipper_Probability"]>>)
        weighted_fee == WeightedFee(row, env)
        tier(share, uplift) ==
            Prod(<<Mul(attraction, share), weighted_fee, Add(Num(Centi(1)), uplift)>>)
    IN  SumSeq(<< tier(env.Share_of_standard, Num(0)),
                  tier(env.Share_of_next_day, row["Next_vs_standard_increase"]),
                  tier(env.Share_of_same_day, row["Same_vs_standard_increase"]) >>)

\* attracted demand times the weighted fee: every tier at the standard fee
FlatRevenue(row, env) ==
    Mul(Prod(<<env.number_of_deliveries, row["Recipient_Probability"],
               row["Shipper_Probability"]>>),
        WeightedFee(row, env))

\* the hundredths that the rounding of the three tier attractions (half a
\* hundredth of a delivery each, at the weighted fee) and of the four
\* products (half a hundredth each) can put between the two sums
Rounding(row, env) == (3 * WeightedFee(row, env).v + 400) \div 200 + 1
Near(a, b, row, env) == Abs(a.v - b.v) <= Rounding(row, env)

\* C15: the daily revenue is the sum over the tiers of tier attraction x
\* weighted fee x (1 + tier uplift); it is the flat product attraction x
\* weighted fee when both uplifts are 0 and exceeds it otherwise
C15_RevenueIsTierWeightedSum ==
    \A row \in outcome.rows : \A env \in environment :
        LET revenue == row["Total_revenue"]
            flat == FlatRevenue(row, env)
            next == row["Next_vs_standard_increase"]
            same == row["Same_vs_standard_increase"]
        IN  /\ revenue = TierRevenue(row, env)
            /\ (next.v = 0 /\ same.v = 0) => Near(revenue, flat, row, env)
            /\ (next.v > 0 /\ same.v > 0 /\ flat.v >= Centi(10))
               => revenue.v > flat.v + Rounding(row, env)

\* a round with both uplifts earned more than the flat product, after a
\* round without uplifts that earned the flat product
C15_Witness ==
    /\ outcome.status = "returned"
    /\ \E row \in outcome.rows : \E env \in environment :
          /\ row["Next_vs_standard_increase"].v > 0
          /\ row["Total_revenue"].v > FlatRevenue(row, env).v + Rounding(row, env)
    /\ \E i \in DOMAIN calls : \E row \in calls[i].outcome.rows : \E env \in environment :
          /\ row["Next_vs_standard_increase"].v = 0
          /\ row["Same_vs_standard_increase"].v = 0
          /\ row["Total_revenue"].v > Centi(10)
          /\ Near(row["Total_revenue"], FlatRevenue(row, env), row, env)

\* calls i and j are the diesel-only round without microhub and the
\* all-electric round with microhub, both returned, with equal probabilities
\* (fees and uplifts are those of BaseSeries in both, the environment is the
\* one of the behaviour)
ScenarioPair(i, j) ==
    /\ calls[i].series = DieselOnly
    /\ calls[j].series = ElectricWithMicrohub
    /\ calls[i].outcome.status = "returned"
    /\ calls[j].outcome.status = "returned"
    /\ \A a \in calls[i].outcome.rows : \A b \in calls[j].outcome.rows :
          /\ a["Shipper_Probability"] = b["Shipper_Probability"]
          /\ a["Recipient_Probability"] = b["Recipient_Probability"]

EmissionDecreases(i, j) ==
    \A a \in calls[i].outcome.rows : \A b \in calls[j].outcome.rows :
        b["Total_emission"].v < a["Total_emission"].v

\* the electric van's external cost per unit of capacity is at most the
\* diesel van's
ElectricNoWorsePerCapacity(env) ==
    env.electric_van_external_cost.v * py_max(Eps, env.diesel_van_cap).v
        <= env.diesel_van_external_cost.v * py_max(Eps, env.electric_van_cap).v

C18_GeographyTableUnchanged ==
    [][ event' \in {"environment", "KeyError"} => shippers_geo' = shippers_geo ]_vars

\* what init_environment does to the table: every column it had keeps its
\* values and, once the share column was found, 'Shipper Volume' is added
GeographyTableGainsVolumeColumn ==
    [][ event' \in {"environment", "KeyError"}
        => /\ Len(shippers_geo'.rows) = Len(shippers_geo.rows)
           /\ \A i \in DOMAIN shippers_geo.rows : \A c \in shippers_geo.columns :
                 shippers_geo'.rows[i][c] = shippers_geo.rows[i][c]
           /\ "Shipper Volume_share" \in shippers_geo.columns
              => shippers_geo'.columns = shippers_geo.columns \cup {"Shipper Volume"} ]_vars

\* C19: for a geography table without shippers init_environment raises an
\* error and returns no environment
C19_EmptyGeographyIsAnError ==
    (event # "load" /\ Len(shippers_geo.rows) = 0)
    => (environment = {} /\ event \notin {"environment", "call"})

\* what init_environment does with an empty table: without the two columns it
\* raises KeyError; with them it returns an environment of zero shippers whose
\* mean depot distance is NaN
EmptyGeographyGivesNaNDistance ==
    (event # "load" /\ Len(shippers_geo.rows) = 0)
    => IF "Shipper Volume_share" \in shippers_geo.columns
       THEN \E env \in environment :
               /\ environment = {env}
               /\ isna(env.r2)
               /\ env.NS = Num(0)
       ELSE environment = {} /\ event = "KeyError"

\* a vehicle capacity or the operating hours of env are zero or at the floor,
\* and the denominators that have no floor are not zero
NearZeroCapacityOrHours(env) ==
    /\ \E d \in {env.diesel_van_cap, env.electric_van_cap, env.cargo_bike_cap,
                 env.Vehicels_daily_operating_hours} : d.v <= Eps.v
    /\ \A d \in {env.number_of_deliveries, env.diesel_van_speed, env.electric_van_speed,
                 env.cargo_bike_speed} : ~div_raises(d)

\* the totals of a RoundResult, daily and per horizon
Totals ==
    {q[2] : q \in Scaled} \cup {q[1] \o h[1] : q \in Scaled, h \in Horizons}

\* C20: in an environment with a vehicle capacity or the operating hours at
\* zero or near it, a call that reaches the simulation returns, and the five
\* fleet counts and the daily and horizon totals are numbers
C20_FiniteAtZeroCapacityOrHours ==
    \A env \in environment :
        (NearZeroCapacityOrHours(env) /\ outcome.status # "none"
            /\ outcome.stage \notin {"sanitize", "shippers", "recipients"})
        => /\ outcome.status = "returned"
           /\ \A row \in outcome.rows : \A t \in Totals : row[t].k = "num"
           /\ \A w \in outcome.work : \A leg \in Legs :
                 w[leg[2]].k = "num" /\ w[leg[2]].v >= 0

\* two diesel-only rounds returned, in an environment without diesel capacity
\* or without operating hours, with a diesel fleet and a cost
C20_Witness ==
    /\ \E env \in environment :
          /\ NearZeroCapacityOrHours(env)
          /\ env.diesel_van_cap.v = 0 \/ env.Vehicels_daily_operating_hours.v = 0
    /\ Len(calls) = 2
    /\ \A i \in DOMAIN calls :
          /\ calls[i].series = DieselOnly
          /\ calls[i].outcome.status = "returned"
          /\ \E row \in calls[i].outcome.rows : row["Total_costs"].v > 0
          /\ \E w \in calls[i].outcome.work : w["Fleet_delivery_diesel"].v >= Centi(1)

\* C22: given the same coefficient table and the same lever vector, the
\* shipper evaluator and the recipient evaluator return the same probability
C22_EvaluatorsAgree ==
    \A cur \in HandedSoFar :
        \A b \in {models.shippers_beta_values, models.recipients_beta_values} :
            calculate_probability_of_selecting_by_shippers(b, cur)
                = calculate_probability_of_selecting_by_recipients(b, cur)

\* where the two evaluators do agree: on a complete table, when both uplifts
\* are whole numbers, which int() leaves as they are
EvaluatorsAgreeOnWholeUplifts ==
    \A cur \in HandedSoFar :
        \A b \in {models.shippers_beta_values, models.recipients_beta_values} :
            ( /\ DOMAIN b = BetaKeys
              /\ py_int(cur["Next_day_delivery_increase"]) = cur["Next_day_delivery_increase"]
              /\ py_int(cur["Same_day_delivery_increase"]) = cur["Same_day_delivery_increase"] )
            => calculate_probability_of_selecting_by_shippers(b, cur)
                   = calculate_probability_of_selecting_by_recipients(b, cur)

\* the vehicles of each mode that Total_costs charges the fixed daily cost
\* for (lines 143-150) and the operating time of the mode over all its legs
ChargedDiesel(w) == Add(w.Fleet_collection_diesel, w.Fleet_delivery_diesel)
ChargedElectric(w) == Add(w.Fleet_collection_electric, w.Fleet_delivery_electric)
ChargedBike(w) == w.Fleet_delivery_bike
TimeDiesel(w) == Add(w.Time_collection_diesel, w.Time_delivery_diesel)
TimeElectric(w) == Add(w.Time_collection_electric, w.Time_delivery_electric)
TimeBike(w) == w.Time_delivery_bike

\* C23: for each mode the number of vehicles charged the fixed daily cost is
\* ceiling(operating time of the mode over all its legs / operating hours)
C23_ChargedFleetIsCeilingOfModeTime ==
    \A w \in outcome.work :
        (w.hours.v > 0 /\ TimeDiesel(w).v >= 0 /\ TimeElectric(w).v >= 0 /\ TimeBike(w).v >= 0)
        => /\ IsCeiling(ChargedDiesel(w), TimeDiesel(w), w.hours)
           /\ IsCeiling(ChargedElectric(w), TimeElectric(w), w.hours)
           /\ IsCeiling(ChargedBike(w), TimeBike(w), w.hours)

\* what is charged: for a van mode the ceiling of the collection time plus the
\* ceiling of the delivery time, which is the ceiling of the mode's time or
\* one vehicle more; for the bikes, with their one leg, the ceiling
ChargedFleetIsSumOfCeilings ==
    \A w \in outcome.work :
        (w.hours.v > 0 /\ TimeDiesel(w).v >= 0 /\ TimeElectric(w).v >= 0 /\ TimeBike(w).v >= 0)
        => /\ \A leg \in Legs : IsCeiling(w[leg[2]], w[leg[1]], w.hours)
           /\ \/ IsCeiling(ChargedDiesel(w), TimeDiesel(w), w.hours)
              \/ IsCeiling(Sub(ChargedDiesel(w), Num(Centi(1))), TimeDiesel(w), w.hours)
           /\ \/ IsCeiling(ChargedElectric(w), TimeElectric(w), w.hours)
              \/ IsCeiling(Sub(ChargedElectric(w), Num(Centi(1))), TimeElectric(w), w.hours)
           /\ IsCeiling(ChargedBike(w), TimeBike(w), w.hours)

\* the distance and operating time of the cargo-bike leg when it is sized
\* from the demand quantity q (lines 118-121, 135-137)
BikeDistance(env, q) ==
    Add(DivEps(Prod(<<Num(Centi(2)), env.r2, env.E_vol, q>>), env.cargo_bike_cap),
        Mul(Num(57), sqrt(Mul(q, env.CBD_area_for_microhub))))
BikeTime(env, q) ==
    Add(Div(BikeDistance(env, q), env.cargo_bike_speed),
        Prod(<<Num(Centi(2)), env.loading_unloading_time, q>>))

\* total attracted demand x (non-CBD deliveries / all deliveries) x
\* (1 + failed-delivery rate)
NonCBDDemand(env, w) ==
    Prod(<<w.total_carrier_demand_attraction,
           Div(env.number_of_non_CBD_deliveries, env.number_of_deliveries),
           Add(Num(Centi(1)), env.failed_delivery_rate)>>)

\* total attracted demand x CDD_share x (1 + failed-delivery rate)
CBDDemand(env, w) ==
    Prod(<<w.total_carrier_demand_attraction, env.CDD_share,
           Add(Num(Centi(1)), env.failed_delivery_rate)>>)

MicrohubOn(row) == row["Micro_hub_with_bike"] = Num(Centi(1))

\* the hundredths that the rounding of the products can put between two
\* ways of computing the leg, the division by the capacity magnifying it
BikeRounding(env) == 5 + (Centi(5) \div py_max(Eps, env.cargo_bike_cap).v)

\* the bike leg of w has the distance and operating time of the demand q
BikeLegSizedFrom(env, w, q) ==
    /\ Abs(w.VKT_LMD_delivery_bike.v - BikeDistance(env, q).v) <= BikeRounding(env)
    /\ Abs(w.Time_delivery_bike.v - BikeTime(env, q).v) <= BikeRounding(env)

\* C24: with the microhub on, the cargo-bike leg's distance and operating
\* time are sized from total attracted demand x (non-CBD deliveries / all
\* deliveries) x (1 + failed-delivery rate)
C24_BikeLegSizedFromNonCBDDemand ==
    \A env \in environment : \A row \in outcome.rows : \A w \in outcome.work :
        MicrohubOn(row) => BikeLegSizedFrom(env, w, NonCBDDemand(env, w))

\* what sizes the leg: total attracted demand x CDD_share, the CBD deliveries
\* over all deliveries, x (1 + failed-delivery rate)
BikeLegSizedFromCBDDemand ==
    \A env \in environment : \A row \in outcome.rows : \A w \in outcome.work :
        MicrohubOn(row) => BikeLegSizedFrom(env, w, CBDDemand(env, w))

\* Total_costs and Total_emission from the collection legs and the vans'
\* local delivery legs alone (lines 143-156 without the bike and line-haul terms)
CostsWithoutHub(env, w) ==
    SumSeq(<< Mul(env.diesel_van_operational_cost,
                  Add(w.Time_collection_diesel, w.Time_delivery_LMD_diesel)),
              Mul(env.electric_van_operational_cost,
                  Add(w.Time_collection_electric, w.Time_delivery_LMD_electric)),
              Mul(env.diesel_van_daily_fixed_cost,
                  Add(w.Fleet_collection_diesel, w.Fleet_delivery_diesel)),
              Mul(env.electric_van_daily_fixed_cost,
                  Add(w.Fleet_collection_electric, w.Fleet_delivery_electric)) >>)
EmissionWithoutHub(env, w) ==
    SumSeq(<< Mul(env.diesel_van_external_cost,
                  Add(w.VKT_collection_diesel, w.VKT_LMD_delivery_diesel)),
              Mul(env.electric_van_external_cost,
                  Add(w.VKT_collection_electric, w.VKT_LMD_delivery_electric)) >>)

\* C25: with the microhub lever at 0 the bike distance, bike operating time,
\* bike fleet count and both line-haul distances and times are 0, and
\* Total_costs and Total_emission hold nothing of bikes or line haul
C25_NoHubNoBikeNoLineHaul ==
    \A env \in environment : \A row \in outcome.rows : \A w \in outcome.work :
        row["Micro_hub_with_bike"] = Num(0)
        => /\ \A q \in { w.VKT_LMD_delivery_bike, w.Time_delivery_bike, w.Fleet_delivery_bike,
                         w.VKT_LHT_delivery_diesel, w.VKT_LHT_delivery_electric,
                         w.Time_delivery_LHT_diesel, w.Time_delivery_LHT_electric } :
                 q = Num(0)
           /\ w.Time_delivery_diesel = w.Time_delivery_LMD_diesel
           /\ w.Time_delivery_electric = w.Time_delivery_LMD_electric
           /\ row["Total_costs"] = CostsWithoutHub(env, w)
           /\ row["Total_emission"] = EmissionWithoutHub(env, w)

\* a round without microhub returned, with vans on the road and at a cost,
\* after a round with microhub that had bikes and line haul
C25_Witness ==
    /\ Len(calls) = 2
    /\ \E row \in calls[1].outcome.rows : \E w \in calls[1].outcome.work :
          /\ MicrohubOn(row)
          /\ w.Fleet_delivery_bike.v >= Centi(1)
          /\ w.VKT_LHT_delivery_electric.v > 0
    /\ \E row \in outcome.rows : \E w \in outcome.work :
          /\ row["Micro_hub_with_bike"] = Num(0)
          /\ w.VKT_LMD_delivery_diesel.v > 0
          /\ w.Fleet_delivery_bike = Num(0)
          /\ row["Total_costs"].v > 0
          /\ row["Total_emission"].v > 0

\* the seven legs of a round: operating time, distance, speed of the mode
\* and demand quantity of the leg
LegsOf(env, row, w) ==
    LET hub == Mul(row["Micro_hub_with_bike"], env.CDD_share)
        not_hub == Sub(Num(Centi(1)), hub)
        retry == Add(Num(Centi(1)), env.failed_delivery_rate)
    IN  { <<w.Time_collection_diesel, w.VKT_collection_diesel, env.diesel_van_speed,
            w.demand_diesel>>,
          <<w.Time_collection_electric, w.VKT_collection_electric, env.electric_van_speed,
            w.demand_electric>>,
          <<w.Time_delivery_LMD_diesel, w.VKT_LMD_delivery_diesel, env.diesel_van_speed,
            Prod(<<not_hub, retry, w.demand_diesel>>)>>,
          <<w.Time_delivery_LMD_electric, w.VKT_LMD_delivery_electric, env.electric_van_speed,
            Prod(<<not_hub, retry, w.demand_electric>>)>>,
          <<w.Time_delivery_LHT_diesel, w.VKT_LHT_delivery_diesel, env.diesel_van_speed,
            Prod(<<hub, retry, w.demand_diesel>>)>>,
          <<w.Time_delivery_LHT_electric, w.VKT_LHT_delivery_electric, env.electric_van_speed,
            Prod(<<hub, retry, w.demand_electric>>)>>,
          <<w.Time_delivery_bike, w.VKT_LMD_delivery_bike, env.cargo_bike_speed,
            Prod(<<hub, retry, w.total_carrier_demand_attraction>>)>> }

\* the operating time of leg is distance / speed + n x loading-and-unloading
\* time x demand, within the rounding of the products
TimeCountsLoading(env, leg, n) ==
    Abs(leg[1].v - Add(Div(leg[2], leg[3]),
                       Prod(<<Num(Centi(n)), env.loading_unloading_time, leg[4]>>)).v) <= 3

\* C26: for every mode and leg, operating time = leg distance / mode speed +
\* loading-and-unloading time x leg demand, the time counted once per unit
C26_TimeCountsLoadingOnce ==
    \A env \in environment : \A row \in outcome.rows : \A w \in outcome.work :
        \A leg \in LegsOf(env, row, w) : TimeCountsLoading(env, leg, 1)

\* what the legs take: the loading-and-unloading time twice per unit of demand
TimeCountsLoadingTwice ==
    \A env \in environment : \A row \in outcome.rows : \A w \in outcome.work :
        \A leg \in LegsOf(env, row, w) : TimeCountsLoading(env, leg, 2)

\* the quantities under the square roots of the density terms, each with
\* the area of its leg and the demand quantity of its leg: collection, van
\* local delivery (diesel, electric), cargo bike
RootsOf(env, row, w) ==
    LET hub == Mul(row["Micro_hub_with_bike"], env.CDD_share)
        not_hub == Sub(Num(Centi(1)), hub)
        retry == Add(Num(Centi(1)), env.failed_delivery_rate)
        area_LMD == Sub(env.total_area, env.CBD_area_for_microhub)
    IN  { <<"collection", w.root_collection, env.total_area, env.NS>>,
          <<"van", w.root_LMD_diesel, area_LMD, Prod(<<not_hub, retry, w.demand_diesel>>)>>,
          <<"van", w.root_LMD_electric, area_LMD, Prod(<<not_hub, retry, w.demand_electric>>)>>,
          <<"bike", w.root_LMD_bike, env.CBD_area_for_microhub,
            Prod(<<hub, retry, w.total_carrier_demand_attraction>>)>> }

\* C27: with the microhub on, the quantity under the square root of every
\* leg's density term is shipper count x the area of the leg
C27_RootIsShipperCountTimesArea ==
    \A env \in environment : \A row \in outcome.rows : \A w \in outcome.work :
        MicrohubOn(row)
        => \A r \in RootsOf(env, row, w) : r[2] = Mul(env.NS, r[3])

\* what is under the square roots: shipper count x total area for the
\* collection legs; for the delivery legs the demand quantity of the leg x
\* the area of the leg, within the rounding of the products (two hundredths
\* of a delivery, times the area)
RootIsLegDemandTimesArea ==
    \A env \in environment : \A row \in outcome.rows : \A w \in outcome.work :
        \A r \in RootsOf(env, row, w) :
            Abs(r[2].v - Mul(r[4], r[3]).v) * 100 <= 2 * r[3].v + 100

\* the distances, operating times and fleet counts of a van mode, collection
\* first, and its terms of Total_costs and Total_emission
ModeOf(env, w, mode) ==
    IF mode = "diesel"
    THEN [ collection |-> <<w.VKT_collection_diesel, w.Time_collection_diesel,
                            w.Fleet_collection_diesel>>,
           delivery |-> <<w.VKT_LMD_delivery_diesel, w.VKT_LHT_delivery_diesel,
                          w.Time_delivery_diesel, w.Fleet_delivery_diesel>>,
           costs |-> Add(Mul(env.diesel_van_operational_cost, TimeDiesel(w)),
                         Mul(env.diesel_van_daily_fixed_cost, ChargedDiesel(w))),
           emission |-> Mul(env.diesel_van_external_cost,
                            Add(Add(w.VKT_collection_diesel, w.VKT_LMD_delivery_diesel),
                                w.VKT_LHT_delivery_diesel)) ]
    ELSE [ collection |-> <<w.VKT_collection_electric, w.Time_collection_electric,
                            w.Fleet_collection_electric>>,
           delivery |-> <<w.VKT_LMD_delivery_electric, w.VKT_LHT_delivery_electric,
                          w.Time_delivery_electric, w.Fleet_delivery_electric>>,
           costs |-> Add(Mul(env.electric_van_operational_cost, TimeElectric(w)),
                         Mul(env.electric_van_daily_fixed_cost, ChargedElectric(w))),
           emission |-> Mul(env.electric_van_external_cost,
                            Add(Add(w.VKT_collection_electric, w.VKT_LMD_delivery_electric),
                                w.VKT_LHT_delivery_electric)) ]

ModeShares == {<<"diesel", "Diesel_van_share">>, <<"electric", "Electic_van_share">>}

\* C29: a van mode whose share is 0 has distance, operating time and fleet
\* counts of 0 and adds 0 to Total_costs and to Total_emission
C29_ZeroShareContributesNothing ==
    \A env \in environment : \A row \in outcome.rows : \A w \in outcome.work :
        \A m \in ModeShares :
            row[m[2]] = Num(0)
            => LET mode == ModeOf(env, w, m[1])
               IN  /\ \A q \in Range(mode.collection) \cup Range(mode.delivery) : q = Num(0)
                   /\ mode.costs = Num(0)
                   /\ mode.emission = Num(0)

\* what a van mode with share 0 has: delivery legs of 0, and a collection leg
\* of the density distance 0.57 * sqrt(NS * total_area), for which a vehicle
\* is counted when the drive takes any time
ZeroShareKeepsCollectionTour ==
    \A env \in environment : \A row \in outcome.rows : \A w \in outcome.work :
        \A m \in ModeShares :
            row[m[2]] = Num(0)
            => LET mode == ModeOf(env, w, m[1])
               IN  /\ \A q \in Range(mode.delivery) : q = Num(0)
                   /\ mode.collection[1] = Mul(Num(57), sqrt(Mul(env.NS, env.total_area)))
                   /\ (w.hours.v > 0 /\ mode.collection[2].v > 0)
                      => mode.collection[3].v >= Centi(1)

\* the Series that differ from s in Large_parcels_delivery_fee or in
\* Share_of_electric_vans only
OtherLargeFeeOrElectricShare(s) ==
    { [s EXCEPT ![c] = v] : c \in {"Large_parcels_delivery_fee", "Share_of_electric_vans"},
                            v \in {Num(0), Num(Centi(100))} } \ {s}

DemandFields == {"Shipper_Probability", "Recipient_Probability", "Total_demand"}

\* C30: two rounds whose Series differ only in Large_parcels_delivery_fee or
\* Share_of_electric_vans, with the same tables and environment, have the
\* same two probabilities and the same attracted demand (or fail alike in
\* the evaluators)
C30_LargeFeeAndElectricShareDoNotMoveDemand ==
    \A given \in series : \A env \in environment :
        \A s \in OtherLargeFeeOrElectricShare(given) :
            LET a == outcome
                b == compute_round_result(1, s, COLUMNS, models, env)
            IN  /\ a.status = "returned"
                   => /\ b.status = "returned"
                      /\ \A ra \in a.rows : \A rb \in b.rows :
                            \A f \in DemandFields : ra[f] = rb[f]
                /\ a.stage \in {"shippers", "recipients"}
                   => (b.stage = a.stage /\ b.exc = a.exc)

\* with weights on the large fee and the electric share in both tables, a
\* round returned whose emission moves with the electric share and whose
\* revenue moves with the large fee, the demand staying as it is
C30_Witness ==
    /\ models = Models(ExtraBetas, ExtraBetas)
    /\ outcome.status = "returned"
    /\ \E given \in series : \E env \in environment :
          \E s, t \in OtherLargeFeeOrElectricShare(given) :
              \A ra \in outcome.rows :
                  \A rs \in compute_round_result(1, s, COLUMNS, models, env).rows :
                      \A rt \in compute_round_result(1, t, COLUMNS, models, env).rows :
                          /\ ra["Total_demand"].v > 0
                          /\ rs["Total_emission"] # ra["Total_emission"]
                          /\ rt["Total_revenue"] # ra["Total_revenue"]
                          /\ rs["Total_demand"] = ra["Total_demand"]
                          /\ rt["Total_demand"] = ra["Total_demand"]

\* C21: the leaderboard update is a read followed later by a write keyed by
\* the player: the write puts the record the session computed from its own
\* earlier read on the row its lookup found, whatever the sheet holds by
\* then, so of two sessions updating one player the last write wins
C21_WriteIsLastWriterWins ==
    [][ event' = "put" =>
          \E s \in Sessions :
              /\ updates[s].pc = "put"
              /\ updates'[s].pc = "idle"
              /\ \A rec \in updates[s].rec :
                    players_sheet' =
                        put_row(players_sheet, updates[s].row_num, values_of(rec)) ]_vars

\* both sessions have updated the one row of one player and returned True,
\* and the stored best profit is lower than the better of the two submitted
C21_Witness ==
    /\ Len(players_sheet) = 1
    /\ \A s \in Sessions :
        /\ updates[s].pc = "idle"
        /\ updates[s].email = "ann@x.org"
        /\ updates[s].returned = {TRUE}
    /\ \E c1 \in updates[1].call : \E c2 \in updates[2].call :
        LET stored == players_sheet[1]["best_profit_one_year"]
            better == py_max(c1.row["Total_profit_one_year"],
                             c2.row["Total_profit_one_year"])
        IN  /\ stored.k = "num"
            /\ stored.v < format_6g(better).v

\* the record of a player on the sheet, the empty record without a row
StoredRecord(sheet, email_key) ==
    LET players == _load_players_with_rows(sheet)
    IN  IF email_key \in DOMAIN players THEN players[email_key]
        ELSE new_record(email_key)

Higher(new, old) == float_gt(new, float_or(old, NegInf))
Lower(new, old) == float_lt(new, float_or(old, PosInf))

\* none of the four records of a player is worse after the step than before
NoRecordWorse(before, after) ==
    /\ ~Higher(before["best_profit_one_year"], after["best_profit_one_year"])
    /\ ~Higher(before["best_profit_per_parcel"], after["best_profit_per_parcel"])
    /\ ~Lower(before["best_emission_one_year"], after["best_emission_one_year"])
    /\ ~Lower(before["best_emission_per_parcel"], after["best_emission_per_parcel"])

SomeRecordBetter(before, after) ==
    \/ Higher(after["best_profit_one_year"], before["best_profit_one_year"])
    \/ Higher(after["best_profit_per_parcel"], before["best_profit_per_parcel"])
    \/ Lower(after["best_emission_one_year"], before["best_emission_one_year"])
    \/ Lower(after["best_emission_per_parcel"], before["best_emission_per_parcel"])

PerParcelUntouched(before, after) ==
    \A f \in {"best_profit_per_parcel", "best_emission_per_parcel",
              "best_profit_attributes", "best_emission_attributes"} :
        after[f] = before[f]

\* the step is the write of update_player_best by the one session, for email_key
UpdateWrites(email_key) ==
    /\ event' = "put"
    /\ updates[1].fn = "update_player_best"
    /\ updates'[1].returned = {TRUE}
    /\ updates[1].email = email_key

\* C28: with one session, the stored best profits never decrease and the
\* stored best emissions never increase; update_player_best writes and
\* returns True only when one of the four records strictly improved; the
\* per-parcel records stay as they were when the one-year demand is not
\* positive
C28_RecordsImproveOrStay ==
    [][ \A email_key \in {"ann@x.org", "bob@x.org"} :
          LET before == StoredRecord(players_sheet, email_key)
              after == StoredRecord(players_sheet', email_key)
          IN  /\ NoRecordWorse(before, after)
              /\ UpdateWrites(email_key) => SomeRecordBetter(before, after)
              /\ (UpdateWrites(email_key)
                  /\ \A c \in updates[1].call : ~float_gt(demand_1y_of(c.row), Num(0)))
                 => PerParcelUntouched(before, after) ]_vars

\* the same without "only when": the records never worsen, the per-parcel
\* records are kept without demand, and a write follows a submitted value
\* that beat the stored one
RecordsNeverWorsen ==
    [][ \A email_key \in {"ann@x.org", "bob@x.org"} :
          LET before == StoredRecord(players_sheet, email_key)
              after == StoredRecord(players_sheet', email_key)
          IN  /\ NoRecordWorse(before, after)
              /\ UpdateWrites(email_key) =>
                    \E c \in updates[1].call :
                        update_of(_load_players_with_rows(players_sheet),
                                  email_key, c).changed
              /\ (UpdateWrites(email_key)
                  /\ \A c \in updates[1].call : ~float_gt(demand_1y_of(c.row), Num(0)))
                 => PerParcelUntouched(before, after) ]_vars

=============================================================================
